---- MODULE Spec2Model ----
(***************************************************************************)
(* A model of the piclock analog-clock driver.                             *)
(*                                                                         *)
(*   - ClockController (piclock.py): hand position arithmetic, the offset  *)
(*     computation and correction decision, the cadence loop, the main     *)
(*     loop and the control requests of the web API.                       *)
(*   - Clock (functions/clock.py): the hand position arithmetic of the     *)
(*     modular application.                                                *)
(*                                                                         *)
(* Several specifications share the variables below; each one fixes the    *)
(* variables it does not use.                                              *)
(***************************************************************************)
EXTENDS Integers, Sequences, FiniteSets, TLC

VARIABLES
    \* ClockController: hand position (piclock.py 76-79)
    clock_hour, clock_minute, clock_second,
    \* ClockController: clock state (piclock.py 69-74)
    current_tick_pin, fast_forward, paused, reverse, current_speed,
    \* ClockController: synchronization thresholds (piclock.py 64-67)
    diff_threshold_hh, diff_threshold_mm, diff_threshold_ss,
    \* hardware: availability, the RTC's time of day, the FRAM record
    hardware_available, rtc, fram,
    \* threading (piclock.py 81-84, 752)
    lock, tick_event, shutdown_event,
    \* position of the main loop (run) and of the cadence loop (timer_callback)
    main_pc, timer_pc,
    \* run's local time_string: the record loaded at startup, <<>> for None
    time_string,
    \* locals of the running synchronization cycle
    seen_pos, total_seconds_diff, last_tick,
    \* counters of the run: cycles that ticked, tick-due signals, RTC seconds
    ticks, signals, elapsed,
    \* eighths of a second elapsed within the current RTC second
    subsec,
    \* the last position updates, each with the position it started from
    rt_hist,
    \* Clock of the modular application (functions/clock.py 16-26)
    hour_hand_position, minute_hand_position, second_hand_position,
    clk_reverse, clk_current_tick_pin,
    \* how the send_pwm_pulse calls of the last tick ended (piclock.py 217-229)
    pulse_result,
    \* position of the resync loop (continuous_sync_rtc_time_with_ntp_time)
    \* and the answer of its last get_ntp_time call, None for a failure
    sync_pc, ntp_time,
    \* resync requests made so far
    syncs,
    \* position of _signal_handler on the main thread, and whether
    \* GPIO.cleanup has released the outputs
    handler_pc, gpio_released,
    \* ClockController: the lock of the hand position (piclock.py 83), by holder
    clock_position_lock,
    \* the send_pwm_pulse calls of the running tick, in order, each with its
    \* output, length in msecs, duty-cycle parameter and outcome
    pulse_log,
    \* reverse_tick's local current_second (piclock.py 262-263)
    current_second,
    \* Clock of the modular application: paused, fast_forward
    \* (functions/clock.py 23-24)
    clk_paused, clk_fast_forward,
    \* app.py: thread_manager.tick_event and the position of main's loop
    app_tick_event, app_main_pc,
    \* ClockController: fwd_count_mask and rev_count_mask as configured
    \* (piclock.py 45, 61, 705-706, 734-735), as a pair
    count_mask,
    \* timer_callback's local interval, in eighths of a second, None before
    \* the first iteration
    interval,
    \* ThreadManager of the modular application (functions/thread_manager.py
    \* 15-19): stop_event, the state of each registered thread, and the
    \* position of stop_all
    stop_event, threads, stop_pc,
    \* the set-time requests served so far, each with its fields and the
    \* status of its response
    web_log

posVars == <<clock_hour, clock_minute, clock_second>>
modeVars == <<current_tick_pin, fast_forward, paused, reverse, current_speed>>
thresholdVars == <<diff_threshold_hh, diff_threshold_mm, diff_threshold_ss>>
hwVars == <<hardware_available, rtc, fram>>
threadVars == <<lock, tick_event, shutdown_event, main_pc, timer_pc>>
cycleVars == <<time_string, seen_pos, total_seconds_diff, last_tick>>
countVars == <<ticks, signals, elapsed, subsec>>
clkVars == <<hour_hand_position, minute_hand_position, second_hand_position,
             clk_reverse, clk_current_tick_pin>>

tickVars == <<clock_position_lock, pulse_log, current_second>>
cadenceVars == <<count_mask, interval>>
mgrVars == <<stop_event, threads, stop_pc>>
appVars == <<clk_paused, clk_fast_forward, app_tick_event, app_main_pc>>
ioVars == <<pulse_result, sync_pc, ntp_time, syncs, handler_pc, gpio_released,
            tickVars, appVars, cadenceVars, mgrVars, web_log>>

vars == <<posVars, modeVars, thresholdVars, hwVars, threadVars, cycleVars,
          countVars, rt_hist, clkVars, ioVars>>

(***************************************************************************)
(* Program constants                                                       *)
(***************************************************************************)
\* Python's None (the hand position before any record is loaded, a value not
\* computed yet): an integer no hour, minute, second or offset can equal
None == -100000

tick_pin1 == 12
tick_pin2 == 13

\* the speed multipliers of fast-forward and reverse (piclock.py 46, 62)
fwd_speedup == 4
rev_speedup == 2

\* count masks of the cadence loop (piclock.py 45, 61)
fwd_count_mask == 1
rev_count_mask == 3

Hours12 == 1..12
Hours24 == 0..23
Sixty == 0..59

ValidPosition(h, m, s) == h \in Hours12 /\ m \in Sixty /\ s \in Sixty

(***************************************************************************)
(* ClockController.update_clock_position (piclock.py 335-352)              *)
(* The new <<hour, minute, second>> after one step in the given direction. *)
(***************************************************************************)
update_clock_position_no_wrap(h, m, s, rev) ==
    IF rev
    THEN LET s1 == (s - 1) % 60
             m1 == IF s1 = 59 THEN (m - 1) % 60 ELSE m
             h1 == IF s1 = 59 /\ m1 = 59 THEN (h - 1) % 12 ELSE h
         IN  <<h1, m1, s1>>
    ELSE LET s1 == (s + 1) % 60
             m1 == IF s1 = 0 THEN (m + 1) % 60 ELSE m
             h1 == IF s1 = 0 /\ m1 = 0 THEN (h + 1) % 12 ELSE h
         IN  <<h1, m1, s1>>

update_clock_position_hour_first(h, m, s, rev) ==
    IF rev
    THEN LET s1 == (s - 1) % 60
             m1 == IF s1 = 59 THEN (m - 1) % 60 ELSE m
             h0 == IF s1 = 59 /\ m = 59 THEN (h - 1) % 12 ELSE h
             h1 == IF s1 = 59 /\ m = 59 /\ h0 = 0 THEN 12 ELSE h0
         IN  <<h1, m1, s1>>
    ELSE LET s1 == (s + 1) % 60
             m1 == IF s1 = 0 THEN (m + 1) % 60 ELSE m
             h0 == IF s1 = 0 /\ m1 = 0 THEN (h + 1) % 12 ELSE h
             h1 == IF s1 = 0 /\ m1 = 0 /\ h0 = 0 THEN 12 ELSE h0
         IN  <<h1, m1, s1>>

update_clock_position(h, m, s, rev) ==
    IF rev
    THEN LET s1 == (s - 1) % 60
             m1 == IF s1 = 59 THEN (m - 1) % 60 ELSE m
             h0 == IF s1 = 59 /\ m1 = 59 THEN (h - 1) % 12 ELSE h
             h1 == IF s1 = 59 /\ m1 = 59 /\ h0 = 0 THEN 12 ELSE h0
         IN  <<h1, m1, s1>>
    ELSE LET s1 == (s + 1) % 60
             m1 == IF s1 = 0 THEN (m + 1) % 60 ELSE m
             h0 == IF s1 = 0 /\ m1 = 0 THEN (h + 1) % 12 ELSE h
             h1 == IF s1 = 0 /\ m1 = 0 /\ h0 = 0 THEN 12 ELSE h0
         IN  <<h1, m1, s1>>

(***************************************************************************)
(* Values shared by the initial states                                     *)
(***************************************************************************)
IdleThreads ==
    /\ lock = "free"
    /\ tick_event = FALSE
    /\ shutdown_event = FALSE
    /\ main_pc = "idle"
    /\ timer_pc = "idle"

IdleCycle ==
    /\ time_string = <<>>
    /\ seen_pos = <<None, None, None>>
    /\ total_seconds_diff = None
    /\ last_tick = "none"

ZeroCounts ==
    /\ ticks = 0
    /\ signals = 0
    /\ elapsed = 0
    /\ subsec = 0

ConstructedMode ==
    /\ current_tick_pin = tick_pin1
    /\ fast_forward = FALSE
    /\ paused = FALSE
    /\ reverse = FALSE
    /\ current_speed = 1

DefaultThresholds ==
    /\ diff_threshold_hh = 6
    /\ diff_threshold_mm = 0
    /\ diff_threshold_ss = 30

UnusedClock ==
    /\ hour_hand_position = 12
    /\ minute_hand_position = 0
    /\ second_hand_position = 0
    /\ clk_reverse = FALSE
    /\ clk_current_tick_pin = tick_pin1

\* no tick under way: the position lock free, no pulse requested
IdleTick ==
    /\ clock_position_lock = "free"
    /\ pulse_log = <<>>
    /\ current_second = None

\* the threads app.py registers (app.py 163-176)
ThreadNames == {"timer", "syncing", "web"}

\* ThreadManager with its threads registered and not started, stop_all not
\* called
IdleMgr ==
    /\ stop_event = FALSE
    /\ threads = [t \in ThreadNames |-> "registered"]
    /\ stop_pc = "idle"

\* the count masks of __init__, the cadence loop before its first interval
IdleCadence ==
    /\ count_mask = <<fwd_count_mask, rev_count_mask>>
    /\ interval = None

\* the modular application as constructed, its main loop not started
IdleApp ==
    /\ clk_paused = FALSE
    /\ clk_fast_forward = FALSE
    /\ app_tick_event = FALSE
    /\ app_main_pc = "idle"

\* no pulse sent, the resync loop not started, no signal received
\* no set-time request served yet
IdleWeb == web_log = <<>>

IdleServices ==
    /\ pulse_result = <<>>
    /\ sync_pc = "idle"
    /\ ntp_time = <<>>
    /\ syncs = 0
    /\ handler_pc = "none"
    /\ gpio_released = FALSE
    /\ IdleTick
    /\ IdleApp
    /\ IdleCadence
    /\ IdleMgr
    /\ IdleWeb

UnusedHardware ==
    /\ hardware_available = FALSE
    /\ rtc = <<0, 0, 0>>
    /\ fram = <<>>

(***************************************************************************)
(* SpecPosition: update_clock_position called in any order, forward and    *)
(* reverse, from every valid hand position.                                *)
(***************************************************************************)
LastTwo(hist) == IF Len(hist) > 2 THEN SubSeq(hist, Len(hist) - 1, Len(hist)) ELSE hist

InitPosition ==
    /\ clock_hour \in Hours12
    /\ clock_minute \in Sixty
    /\ clock_second \in Sixty
    /\ rt_hist = <<>>
    /\ ConstructedMode /\ DefaultThresholds /\ UnusedHardware
    /\ IdleThreads /\ IdleCycle /\ ZeroCounts /\ UnusedClock /\ IdleServices

UpdatePosition(rev) ==
    LET new == update_clock_position(clock_hour, clock_minute, clock_second, rev)
    IN  /\ clock_hour' = new[1]
        /\ clock_minute' = new[2]
        /\ clock_second' = new[3]
        /\ rt_hist' = LastTwo(Append(rt_hist, <<posVars, rev>>))
        /\ UNCHANGED <<modeVars, thresholdVars, hwVars, threadVars, cycleVars,
                       countVars, clkVars, ioVars>>

UpdateForward == UpdatePosition(FALSE)

UpdateReverse == UpdatePosition(TRUE)

NextPosition == UpdateForward \/ UpdateReverse

SpecPosition == InitPosition /\ [][NextPosition]_vars

\* C1: a forward position update followed by a reverse position update
\* restores the hour, minute and second the pair of updates started from.
C1_ForwardThenReverseRestores ==
    (Len(rt_hist) = 2 /\ rt_hist[1][2] = FALSE /\ rt_hist[2][2] = TRUE)
        => posVars = rt_hist[1][1]

\* the round trip across the 12 -> 1 hour rollover has been made
C1_Witness ==
    /\ Len(rt_hist) = 2
    /\ rt_hist[1][2] = FALSE
    /\ rt_hist[2][2] = TRUE
    /\ rt_hist[1][1] = <<12, 59, 59>>
    /\ rt_hist[2][1] = <<1, 0, 0>>

\* C2: after any sequence of forward and reverse position updates from a
\* valid start the hour is in 1..12, the minute and the second in 0..59.
C2_PositionStaysValid ==
    /\ clock_hour \in Hours12
    /\ clock_minute \in Sixty
    /\ clock_second \in Sixty

\* hour 11 has rolled forward to 12 (not 0) and 1 has rolled back to 12
C2_Witness ==
    /\ Len(rt_hist) = 2
    /\ rt_hist[1] = <<<<11, 59, 59>>, FALSE>>
    /\ rt_hist[2] = <<<<12, 0, 0>>, TRUE>>
    /\ posVars = <<11, 59, 59>>

(***************************************************************************)
(* SpecModular: the Clock class of the modular application                 *)
(* (functions/clock.py), ticked forward and in reverse in any order from   *)
(* every position with which app.py constructs it.                         *)
(***************************************************************************)
\* Clock.update_clock_position (functions/clock.py 116-128): the direction is
\* the object's reverse flag
clk_update_clock_position(h, m, s, rev) ==
    IF rev
    THEN LET s1 == (s - 1) % 60
             m1 == IF s1 = 59 THEN (m - 1) % 60 ELSE m
             h1 == IF s1 = 59 /\ m1 = 59 THEN (h - 1) % 12 ELSE h
         IN  <<h1, m1, s1>>
    ELSE LET s1 == (s + 1) % 60
             m1 == IF s1 = 0 THEN (m + 1) % 60 ELSE m
             h1 == IF s1 = 0 /\ m1 = 0 THEN (h + 1) % 12 ELSE h
         IN  <<h1, m1, s1>>

\* the other of the two outputs (forward: clock.py 37-41, piclock.py 241)
toggle_forward(pin) == IF pin = tick_pin1 THEN tick_pin2 ELSE tick_pin1

\* reverse's switch with the test of the forward one: the output stays
toggle_reverse_forward_test(pin) == IF pin = tick_pin1 THEN tick_pin1 ELSE tick_pin2

\* the other of the two outputs (reverse: clock.py 47-51, piclock.py 284)
toggle_reverse(pin) == IF pin = tick_pin2 THEN tick_pin1 ELSE tick_pin2

InitModular ==
    /\ hour_hand_position \in Hours12
    /\ minute_hand_position \in Sixty
    /\ second_hand_position \in Sixty
    /\ clk_reverse = FALSE
    /\ clk_current_tick_pin = tick_pin1
    /\ clock_hour = None /\ clock_minute = None /\ clock_second = None
    /\ rt_hist = <<>>
    /\ ConstructedMode /\ DefaultThresholds /\ UnusedHardware
    /\ IdleThreads /\ IdleCycle /\ ZeroCounts /\ IdleServices

ClkTick(rev, pin) ==
    LET new == clk_update_clock_position(hour_hand_position, minute_hand_position,
                                         second_hand_position, rev)
    IN  /\ clk_reverse' = rev
        /\ clk_current_tick_pin' = pin
        /\ hour_hand_position' = new[1]
        /\ minute_hand_position' = new[2]
        /\ second_hand_position' = new[3]
        /\ UNCHANGED <<posVars, modeVars, thresholdVars, hwVars, threadVars,
                       cycleVars, countVars, rt_hist, ioVars>>

\* Clock.forward_tick (functions/clock.py 34-42)
ClkForwardTick == ClkTick(FALSE, toggle_forward(clk_current_tick_pin))

\* Clock.reverse_tick (functions/clock.py 44-53)
ClkReverseTick == ClkTick(TRUE, toggle_reverse(clk_current_tick_pin))

NextModular == ClkForwardTick \/ ClkReverseTick

SpecModular == InitModular /\ [][NextModular]_vars

\* C3: in the modular Clock the hour rolls 12 -> 1 forward and 1 -> 12 in
\* reverse, so from a valid start hour_hand_position is never 0 after any
\* sequence of forward_tick / reverse_tick position updates.
C3_ClockHourNeverZero == hour_hand_position \in Hours12

(***************************************************************************)
(* The offset and the correction decision of ClockController               *)
(***************************************************************************)
Abs(x) == IF x < 0 THEN -x ELSE x

\* ClockController.calculate_time_difference (piclock.py 294-316) on a
\* position that holds integers
calculate_time_difference_no_wraparound(ch, cm, cs, ntp_hour, ntp_minute, ntp_second) ==
    LET ntp_total_seconds == ntp_hour * 3600 + ntp_minute * 60 + ntp_second
        clock_hour_24 == IF ch = 12
                         THEN (IF ntp_hour < 12 THEN 0 ELSE 12)
                         ELSE IF ntp_hour >= 12 THEN ch + 12 ELSE ch
        clock_total_seconds == clock_hour_24 * 3600 + cm * 60 + cs
    IN  ntp_total_seconds - clock_total_seconds

calculate_time_difference(ch, cm, cs, ntp_hour, ntp_minute, ntp_second) ==
    LET ntp_total_seconds == ntp_hour * 3600 + ntp_minute * 60 + ntp_second
        clock_hour_24 == IF ch = 12
                         THEN (IF ntp_hour < 12 THEN 0 ELSE 12)
                         ELSE IF ntp_hour >= 12 THEN ch + 12 ELSE ch
        clock_total_seconds == clock_hour_24 * 3600 + cm * 60 + cs
        diff == ntp_total_seconds - clock_total_seconds
    IN  IF diff > 21600 THEN diff - 43200
        ELSE IF diff < -21600 THEN diff + 43200
        ELSE diff

\* calculate_time_difference raises TypeError on a position that is None
\* (piclock.py 306, 308: None + 12, None * 3600)
calculate_time_difference_raises(ch, cm, cs) ==
    ch = None \/ cm = None \/ cs = None

\* ClockController.should_use_fast_forward_or_reverse (piclock.py 318-333)
should_use_inclusive(diff, hh, mm, ss) ==
    LET abs_diff == Abs(diff)
        diff_hours == abs_diff \div 3600
        diff_minutes == (abs_diff % 3600) \div 60
        diff_seconds == abs_diff % 60
    IN  diff_hours >= hh \/ diff_minutes >= mm \/ diff_seconds >= ss

should_use_seconds_only(diff, hh, mm, ss) ==
    LET abs_diff == Abs(diff)
        diff_hours == abs_diff \div 3600
        diff_seconds == abs_diff % 60
    IN  diff_hours > hh \/ diff_seconds > ss

should_use_fast_forward_or_reverse(diff, hh, mm, ss) ==
    LET abs_diff == Abs(diff)
        diff_hours == abs_diff \div 3600
        diff_minutes == (abs_diff % 3600) \div 60
        diff_seconds == abs_diff % 60
    IN  diff_hours > hh \/ diff_minutes > mm \/ diff_seconds > ss

\* a cycle that corrects away from the RTC: reverse when the clock is behind,
\* fast forward when it is ahead
synchronize_clock_tick_away(diff, hh, mm, ss) ==
    IF ~should_use_fast_forward_or_reverse(diff, hh, mm, ss) THEN "forward_tick"
    ELSE IF diff > 0 THEN "reverse_tick"
    ELSE "fast_forward_tick"

\* the branch of ClockController.synchronize_clock (piclock.py 366-380)
synchronize_clock_tick(diff, hh, mm, ss) ==
    IF ~should_use_fast_forward_or_reverse(diff, hh, mm, ss) THEN "forward_tick"
    ELSE IF diff > 0 THEN "fast_forward_tick"
    ELSE "reverse_tick"

\* the speed multiplier a tick stores (piclock.py 234, 247, 260)
tick_speed(tick) ==
    IF tick = "fast_forward_tick" THEN fwd_speedup
    ELSE IF tick = "reverse_tick" THEN rev_speedup
    ELSE 1

\* ticks that all move the position forward, the reverse tick too
ApplyTick_forward_only(tick) ==
    LET rev == (tick = "reverse_tick")
        new == update_clock_position(clock_hour, clock_minute, clock_second, FALSE)
    IN  /\ reverse' = rev
        /\ current_speed' = tick_speed(tick)
        /\ current_tick_pin' = IF rev THEN toggle_reverse(current_tick_pin)
                                      ELSE toggle_forward(current_tick_pin)
        /\ clock_hour' = new[1]
        /\ clock_minute' = new[2]
        /\ clock_second' = new[3]

\* ticks of which only the reverse one writes the reverse flag
ApplyTick_keeping_reverse(tick) ==
    LET rev == (tick = "reverse_tick")
        new == update_clock_position(clock_hour, clock_minute, clock_second, rev)
    IN  /\ reverse' = (rev \/ reverse)
        /\ current_speed' = tick_speed(tick)
        /\ current_tick_pin' = IF rev THEN toggle_reverse(current_tick_pin)
                                      ELSE toggle_forward(current_tick_pin)
        /\ clock_hour' = new[1]
        /\ clock_minute' = new[2]
        /\ clock_second' = new[3]

\* forward_tick, fast_forward_tick, reverse_tick (piclock.py 231-292): the
\* reverse flag and the speed, the output toggled, the position moved by
\* one second
ApplyTick(tick) ==
    LET rev == (tick = "reverse_tick")
        new == update_clock_position(clock_hour, clock_minute, clock_second, rev)
    IN  /\ reverse' = rev
        /\ current_speed' = tick_speed(tick)
        /\ current_tick_pin' = IF rev THEN toggle_reverse(current_tick_pin)
                                      ELSE toggle_forward(current_tick_pin)
        /\ clock_hour' = new[1]
        /\ clock_minute' = new[2]
        /\ clock_second' = new[3]

\* ClockController.synchronize_clock (piclock.py 354-380) with the RTC read
\* succeeding and a position that holds integers: the whole cycle
SynchronizeClock ==
    /\ hardware_available
    /\ ~calculate_time_difference_raises(clock_hour, clock_minute, clock_second)
    /\ LET diff == calculate_time_difference(clock_hour, clock_minute, clock_second,
                                             rtc[1], rtc[2], rtc[3])
           tick == synchronize_clock_tick(diff, diff_threshold_hh, diff_threshold_mm,
                                          diff_threshold_ss)
       IN  /\ seen_pos' = posVars
           /\ total_seconds_diff' = diff
           /\ last_tick' = tick
           /\ fast_forward' = (tick = "fast_forward_tick")
           /\ ApplyTick(tick)
    /\ UNCHANGED <<paused, time_string>>

\* GET /api/time_difference (piclock.py 618-624)
get_time_difference ==
    /\ hardware_available
    /\ ~calculate_time_difference_raises(clock_hour, clock_minute, clock_second)
    /\ seen_pos' = posVars
    /\ total_seconds_diff' = calculate_time_difference(clock_hour, clock_minute,
                                 clock_second, rtc[1], rtc[2], rtc[3])
    /\ UNCHANGED <<time_string, last_tick, posVars, modeVars>>

(***************************************************************************)
(* SpecOffset: one synchronization cycle, or one offset query, with the    *)
(* tolerance set to one second, from sampled hand positions and times of   *)
(* day: every hour, the minutes and seconds next to the rollovers and the  *)
(* ones the claims name.                                                   *)
(***************************************************************************)
EdgeWidth == 1

EdgeValues == (0..EdgeWidth) \cup ((59 - EdgeWidth)..59)

SampleMinutes == {0, 30, 59}

SampleRtcSeconds == EdgeValues \cup {30, 45}

InitOffset ==
    /\ clock_hour \in Hours12
    /\ clock_minute \in SampleMinutes
    /\ clock_second \in EdgeValues
    /\ hardware_available = TRUE
    /\ rtc \in Hours24 \X SampleMinutes \X SampleRtcSeconds
    /\ fram = <<>>
    /\ diff_threshold_hh = 0
    /\ diff_threshold_mm = 0
    /\ diff_threshold_ss = 1
    /\ rt_hist = <<>>
    /\ ConstructedMode /\ IdleThreads /\ IdleCycle /\ ZeroCounts /\ UnusedClock /\ IdleServices

OffsetCycle ==
    /\ total_seconds_diff = None
    /\ SynchronizeClock
    /\ UNCHANGED <<thresholdVars, hwVars, threadVars, countVars, rt_hist, clkVars, ioVars>>

OffsetQuery ==
    /\ total_seconds_diff = None
    /\ get_time_difference
    /\ UNCHANGED <<thresholdVars, hwVars, threadVars, countVars, rt_hist, clkVars, ioVars>>

NextOffset == OffsetCycle \/ OffsetQuery

SpecOffset == InitOffset /\ [][NextOffset]_vars

\* seconds since 12:00:00 of a hand position, hour 12 counting as 0
HandSeconds(pos) == (pos[1] % 12) * 3600 + pos[2] * 60 + pos[3]

\* seconds since midnight of a time of day
DaySeconds(t) == t[1] * 3600 + t[2] * 60 + t[3]

\* C4: the offset calculate_time_difference returns lies in -21600..21600
\* and is congruent to (authoritative seconds - hand seconds) modulo 43200,
\* hand hour 12 counting as 0; hand 12:00:00 against 00:00:01 gives +1 and
\* against 11:59:59 gives -1.
C4_OffsetNormalized ==
    total_seconds_diff # None =>
        /\ -21600 <= total_seconds_diff
        /\ total_seconds_diff <= 21600
        /\ (total_seconds_diff - (DaySeconds(rtc) - HandSeconds(seen_pos))) % 43200 = 0
        /\ (seen_pos = <<12, 0, 0>> /\ rtc = <<0, 0, 1>>) => total_seconds_diff = 1
        /\ (seen_pos = <<12, 0, 0>> /\ rtc = <<11, 59, 59>>) => total_seconds_diff = -1

\* the offset of hand 12:00:00 against 11:59:59 has been computed
C4_Witness ==
    /\ seen_pos = <<12, 0, 0>>
    /\ rtc = <<11, 59, 59>>
    /\ total_seconds_diff = -1
    /\ last_tick = "none"

\* C5: with a tolerance of one second a cycle makes the normal forward tick
\* exactly when |offset| <= 1, the fast-forward tick exactly when offset > 1
\* and the reverse tick exactly when offset < -1, and the hands move one
\* second in that direction; hand 3:00:00 against 3:00:45 fast-forwards with
\* offset 45 and against 2:59:30 reverses with offset -30.
C5_ToleranceOneSecond ==
    last_tick # "none" =>
        /\ (last_tick = "forward_tick") <=> (Abs(total_seconds_diff) <= 1)
        /\ (last_tick = "fast_forward_tick") <=> (total_seconds_diff > 1)
        /\ (last_tick = "reverse_tick") <=> (total_seconds_diff < -1)
        /\ fast_forward = (last_tick = "fast_forward_tick")
        /\ reverse = (last_tick = "reverse_tick")
        /\ HandSeconds(posVars) =
              (HandSeconds(seen_pos) + (IF total_seconds_diff < -1 THEN -1 ELSE 1)) % 43200
        /\ (seen_pos = <<3, 0, 0>> /\ rtc = <<3, 0, 45>>)
              => (last_tick = "fast_forward_tick" /\ total_seconds_diff = 45)
        /\ (seen_pos = <<3, 0, 0>> /\ rtc = <<2, 59, 30>>)
              => (last_tick = "reverse_tick" /\ total_seconds_diff = -30)

\* the cycle of hand 3:00:00 against 2:59:30 has made its reverse tick
C5_Witness ==
    /\ seen_pos = <<3, 0, 0>>
    /\ rtc = <<2, 59, 30>>
    /\ last_tick = "reverse_tick"
    /\ posVars = <<2, 59, 59>>

(***************************************************************************)
(* SpecThreshold: the decision of synchronize_clock at the boundary of the *)
(* tolerance, for every threshold configuration the pulsing-config API can *)
(* store with diff_threshold_hh up to MaxThresholdHours.                   *)
(***************************************************************************)
MaxThresholdHours == 6

\* the tolerance in seconds of the stored thresholds
Tolerance == diff_threshold_hh * 3600 + diff_threshold_mm * 60 + diff_threshold_ss

InitThreshold ==
    /\ diff_threshold_hh \in 0..MaxThresholdHours
    /\ diff_threshold_mm \in Sixty
    /\ diff_threshold_ss \in Sixty
    /\ clock_hour = 12 /\ clock_minute = 0 /\ clock_second = 0
    /\ hardware_available = TRUE
    /\ rtc = <<0, 0, 0>>
    /\ fram = <<>>
    /\ rt_hist = <<>>
    /\ ConstructedMode /\ IdleThreads /\ IdleCycle /\ ZeroCounts /\ UnusedClock /\ IdleServices

\* synchronize_clock from the offset on (piclock.py 366-380)
DecideOnOffset(diff) ==
    /\ last_tick = "none"
    /\ LET tick == synchronize_clock_tick(diff, diff_threshold_hh, diff_threshold_mm,
                                          diff_threshold_ss)
       IN  /\ seen_pos' = posVars
           /\ total_seconds_diff' = diff
           /\ last_tick' = tick
           /\ fast_forward' = (tick = "fast_forward_tick")
           /\ ApplyTick(tick)
    /\ UNCHANGED <<paused, time_string, thresholdVars, hwVars, threadVars, countVars, rt_hist, clkVars, ioVars>>

DecideAtTolerance == \E diff \in {Tolerance, -Tolerance} : DecideOnOffset(diff)

DecideBeyondTolerance == \E diff \in {Tolerance + 1, -(Tolerance + 1)} : DecideOnOffset(diff)

NextThreshold == DecideAtTolerance \/ DecideBeyondTolerance

SpecThreshold == InitThreshold /\ [][NextThreshold]_vars

\* C6: with tolerance T = hh*3600 + mm*60 + ss an offset of exactly +T or -T
\* is held (normal forward tick), T+1 selects the fast-forward tick and
\* -(T+1) the reverse tick.
C6_ThresholdBoundary ==
    last_tick # "none" =>
        /\ Abs(total_seconds_diff) = Tolerance => last_tick = "forward_tick"
        /\ total_seconds_diff = Tolerance + 1 => last_tick = "fast_forward_tick"
        /\ total_seconds_diff = -(Tolerance + 1) => last_tick = "reverse_tick"

\* one second beyond a tolerance of 2:59:59, where the second and the minute
\* of the offset both carry, has selected the fast-forward tick
C6_Witness ==
    /\ thresholdVars = <<2, 59, 59>>
    /\ total_seconds_diff = 10800
    /\ last_tick = "fast_forward_tick"
    /\ posVars = <<12, 0, 1>>

(***************************************************************************)
(* SpecTrack: the cadence loop and the main loop in step with the RTC.     *)
(* Time is counted in eighths of a second (the shortest cadence interval). *)
(* Reads of the RTC succeed, nothing pauses the clock or sets the time,    *)
(* and a cycle is over before the next cadence interval ends.              *)
(***************************************************************************)
\* the mask-to-interval table of timer_callback (piclock.py 387-394 and
\* 397-404), in eighths of a second
mask_interval(mask) ==
    IF mask = 0 THEN 1
    ELSE IF mask = 1 THEN 2
    ELSE IF mask = 3 THEN 4
    ELSE 8


\* the interval with the reverse branch tested first
timer_callback_interval_reverse_first(ff, rev, fwd_mask, rev_mask) ==
    IF rev THEN mask_interval(rev_mask)
    ELSE IF ff THEN mask_interval(fwd_mask)
    ELSE 8

\* the interval timer_callback computes from the mode flags and the count
\* masks (piclock.py 385-407), in eighths
timer_callback_interval(ff, rev, fwd_mask, rev_mask) ==
    IF ff THEN mask_interval(fwd_mask)
    ELSE IF rev THEN mask_interval(rev_mask)
    ELSE 8

\* the interval timer_callback sleeps with the count masks of __init__
timer_interval ==
    timer_callback_interval(fast_forward, reverse, fwd_count_mask, rev_count_mask)

\* the RTC's time of day n seconds later
rtc_after(t, n) ==
    LET total == (t[1] * 3600 + t[2] * 60 + t[3] + n) % 86400
    IN  <<total \div 3600, (total % 3600) \div 60, total % 60>>

\* the offset of the hands from the RTC as the program computes it
CurrentOffset ==
    calculate_time_difference(clock_hour, clock_minute, clock_second,
                              rtc[1], rtc[2], rtc[3])

\* hand positions the tracking run starts from, the RTC being at midnight:
\* 45 seconds behind, one hour behind
TrackStarts == {<<11, 59, 15>>, <<11, 0, 0>>}

InitTrack ==
    /\ \E start \in TrackStarts :
          /\ clock_hour = start[1]
          /\ clock_minute = start[2]
          /\ clock_second = start[3]
    /\ hardware_available = TRUE
    /\ rtc = <<0, 0, 0>>
    /\ fram = <<>>
    /\ rt_hist = <<>>
    /\ lock = "free"
    /\ tick_event = FALSE
    /\ shutdown_event = FALSE
    /\ main_pc = "wait"
    /\ timer_pc = "sleep"
    /\ ConstructedMode /\ DefaultThresholds /\ IdleCycle /\ ZeroCounts /\ UnusedClock /\ IdleServices

\* timer_callback, one iteration (piclock.py 383-414): the interval elapses,
\* the RTC moving on with it, and the tick-due flag is set unless paused
TrackTimerElapse ==
    /\ timer_pc = "sleep"
    /\ ~shutdown_event
    /\ tick_event = FALSE
    /\ lock = "free"
    /\ subsec' = (subsec + timer_interval) % 8
    /\ rtc' = rtc_after(rtc, (subsec + timer_interval) \div 8)
    /\ tick_event' = IF paused THEN tick_event ELSE TRUE
    /\ UNCHANGED <<posVars, modeVars, thresholdVars, hardware_available, fram,
                   lock, shutdown_event, main_pc, timer_pc, cycleVars,
                   ticks, signals, elapsed, rt_hist, clkVars, ioVars>>

\* run, one iteration of the main loop woken by the flag (piclock.py
\* 783-792): clear the flag, synchronize, persist
TrackMainCycle ==
    /\ main_pc = "wait"
    /\ ~shutdown_event
    /\ tick_event = TRUE
    /\ lock = "free"
    /\ ~paused
    /\ tick_event' = FALSE
    /\ SynchronizeClock
    /\ UNCHANGED <<thresholdVars, hwVars, lock, shutdown_event, main_pc, timer_pc,
                   countVars, rt_hist, clkVars, ioVars>>

NextTrack == TrackTimerElapse \/ TrackMainCycle

SpecTrack ==
    /\ InitTrack
    /\ [][NextTrack]_vars
    /\ WF_vars(TrackTimerElapse)
    /\ WF_vars(TrackMainCycle)

\* no tick is due and the hands are within 30 seconds of the RTC
InSync == tick_event = FALSE /\ Abs(CurrentOffset) <= 30

\* the seconds in which the default cadence closes the largest offset there
\* is (21600): fast-forward gains 4 - 1 seconds per second, reverse 2 + 1
SettleSeconds == 21600 \div 3

\* C7: under the default thresholds the offset of the hands from the
\* authoritative time eventually is within 30 seconds and stays there.  In
\* the form a finite run refutes, the run starting at midnight: once the
\* cadence has had the time to close any offset, the hands are within 30
\* seconds of the RTC whenever no tick is due.
C7_HandsTrackTime ==
    (tick_event = FALSE /\ DaySeconds(rtc) >= SettleSeconds)
        => Abs(CurrentOffset) <= 30

\* the claim as a temporal formula; its counterexample is a lasso through a
\* whole day of the RTC
C7_EventuallyInSync == <>[](tick_event = FALSE => Abs(CurrentOffset) <= 30)

\* hands that started 45 seconds behind are within 30 seconds of the RTC
C7_SettledWitness ==
    /\ InSync
    /\ DaySeconds(rtc) >= SettleSeconds
    /\ last_tick = "forward_tick"

(***************************************************************************)
(* The persisted record (piclock.py 141-174): 8 characters 'HH:MM:SS',     *)
(* modelled as a sequence with one string per character.                   *)
(***************************************************************************)
Digits == <<"0", "1", "2", "3", "4", "5", "6", "7", "8", "9">>

IsDigit(c) == \E i \in 1..10 : Digits[i] = c

DigitValue(c) == (CHOOSE i \in 1..10 : Digits[i] = c) - 1

\* Python's int() of a two-character field: two digits, a digit with a blank
\* on one side, or a signed digit; None stands for ValueError
python_int(a, b) ==
    IF IsDigit(a) /\ IsDigit(b) THEN 10 * DigitValue(a) + DigitValue(b)
    ELSE IF a = " " /\ IsDigit(b) THEN DigitValue(b)
    ELSE IF IsDigit(a) /\ b = " " THEN DigitValue(a)
    ELSE IF a = "+" /\ IsDigit(b) THEN DigitValue(b)
    ELSE IF a = "-" /\ IsDigit(b) THEN -DigitValue(b)
    ELSE None

\* an f-string without the zero padding
format_time_string_unpadded(h, m, s) ==
    LET field(n) == IF n < 10 THEN <<Digits[n + 1]>>
                    ELSE <<Digits[(n \div 10) + 1], Digits[(n % 10) + 1]>>
    IN  field(h) \o <<":">> \o field(m) \o <<":">> \o field(s)

\* f"{hour:02}:{minute:02}:{second:02}" (piclock.py 147) of numbers in 0..99
format_time_string(h, m, s) ==
    <<Digits[(h \div 10) + 1], Digits[(h % 10) + 1], ":",
      Digits[(m \div 10) + 1], Digits[(m % 10) + 1], ":",
      Digits[(s \div 10) + 1], Digits[(s % 10) + 1]>>

\* the f-string of write_time_to_fram raises TypeError on a position that is
\* None (piclock.py 147); write_time_to_fram catches it (150-151)
format_time_string_raises(h, m, s) ==
    h = None \/ m = None \/ s = None

\* map(int, time_string.split(":")) of a record with ':' at offsets 2 and 5
\* (piclock.py 165, 756)
parse_time_string(rec) ==
    <<python_int(rec[1], rec[2]), python_int(rec[4], rec[5]), python_int(rec[7], rec[8])>>

\* ClockController.read_time_from_fram (piclock.py 153-174): the record, or
\* <<>> for None
read_time_from_fram(hw, rec) ==
    IF ~hw THEN <<>>
    ELSE IF Len(rec) # 8 THEN <<>>
    ELSE IF rec[3] # ":" \/ rec[6] # ":" THEN <<>>
    ELSE LET t == parse_time_string(rec)
         IN  IF t[1] = None \/ t[2] = None \/ t[3] = None THEN <<>>
             ELSE IF ~(1 <= t[1] /\ t[1] <= 12) \/ ~(0 <= t[2] /\ t[2] <= 59)
                     \/ ~(0 <= t[3] /\ t[3] <= 59) THEN <<>>
             ELSE rec

(***************************************************************************)
(* Spec: ClockController.run with its cadence loop, the RTC counting       *)
(* seconds, and the control requests of the web API, interleaved step by   *)
(* step.                                                                   *)
(***************************************************************************)
MaxTicks == 2
MaxSignals == 2
MaxElapsed == 1
MaxSyncs == 1

\* a blank chip (8 NUL bytes) and a well-formed record
FramRecords ==
    { <<"NUL", "NUL", "NUL", "NUL", "NUL", "NUL", "NUL", "NUL">>,
      format_time_string(3, 0, 0) }

StartTimes == {<<3, 0, 45>>, <<12, 59, 0>>}

SetTimeRequests == {<<6, 30, 0>>}

\* what get_ntp_time can return (piclock.py 195-202): a time of day, or
\* <<>> for the None of a failed request
NtpAnswers == {<<>>, <<12, 59, 0>>}

\* ClockController.set_rtc_time (piclock.py 121-128): the RTC's time after
\* the call
set_rtc_time(hw, current, time_data) ==
    IF ~hw THEN current ELSE time_data

\* a resync that falls back to midnight when the server does not answer
sync_rtc_time_with_ntp_time_inventing(hw, current, answer) ==
    IF answer # <<>> THEN set_rtc_time(hw, current, answer)
    ELSE set_rtc_time(hw, current, <<0, 0, 0>>)

\* ClockController.sync_rtc_time_with_ntp_time (piclock.py 176-184): the
\* RTC's time after the call
sync_rtc_time_with_ntp_time(hw, current, answer) ==
    IF answer # <<>> THEN set_rtc_time(hw, current, answer)
    ELSE current

\* the process lives until the main thread ends: by the exception of a
\* cycle, or by the SystemExit of the signal handler leaving run
ProcessRunning == main_pc # "crashed" /\ handler_pc # "done"

\* ClockController.__init__ (piclock.py 24-98)
Init ==
    /\ clock_hour = None /\ clock_minute = None /\ clock_second = None
    /\ hardware_available \in BOOLEAN
    /\ rtc \in (IF hardware_available THEN StartTimes ELSE {<<0, 0, 0>>})
    /\ fram \in (IF hardware_available THEN FramRecords ELSE {<<>>})
    /\ lock = "free"
    /\ tick_event = FALSE
    /\ shutdown_event = FALSE
    /\ main_pc = "start"
    /\ timer_pc = "idle"
    /\ rt_hist = <<>>
    /\ ConstructedMode /\ DefaultThresholds /\ IdleCycle /\ ZeroCounts /\ UnusedClock /\ IdleServices

\* run, up to the main loop (piclock.py 751-780): load the record, seed the
\* position from it, set the RTC to the NTP time when the server answers,
\* start the threads
RunStartup ==
    /\ main_pc = "start"
    /\ handler_pc = "none"
    /\ LET loaded == read_time_from_fram(hardware_available, fram)
       IN  /\ time_string' = loaded
           /\ IF loaded # <<>>
              THEN LET t == parse_time_string(loaded)
                   IN  /\ clock_hour' = (IF t[1] % 12 = 0 THEN 12 ELSE t[1] % 12)
                       /\ clock_minute' = t[2]
                       /\ clock_second' = t[3]
              ELSE UNCHANGED posVars
    /\ \E answer \in NtpAnswers :
          rtc' = sync_rtc_time_with_ntp_time(hardware_available, rtc, answer)
    /\ main_pc' = "wait"
    /\ timer_pc' = "sleep"
    /\ sync_pc' = "request"
    /\ UNCHANGED <<modeVars, thresholdVars, hardware_available, fram, lock, tick_event,
                   shutdown_event, seen_pos, total_seconds_diff, last_tick, countVars,
                   rt_hist, clkVars, pulse_result, ntp_time, syncs, handler_pc,
                   gpio_released,
                   tickVars, appVars, cadenceVars, mgrVars, web_log>>

\* a cadence loop that does not look at the shutdown flag after its sleep
TimerWake_ignoring_shutdown ==
    /\ ProcessRunning
    /\ timer_pc = "sleep"
    /\ signals < MaxSignals
    /\ timer_pc' = "signal"
    /\ UNCHANGED <<posVars, modeVars, thresholdVars, hwVars, lock, tick_event,
                   shutdown_event, main_pc, cycleVars, countVars, rt_hist, clkVars, ioVars>>

\* timer_callback (piclock.py 383-411): the interval has elapsed
TimerWake ==
    /\ ProcessRunning
    /\ timer_pc = "sleep"
    /\ signals < MaxSignals \/ shutdown_event
    /\ timer_pc' = IF shutdown_event THEN "exited" ELSE "signal"
    /\ UNCHANGED <<posVars, modeVars, thresholdVars, hwVars, lock, tick_event,
                   shutdown_event, main_pc, cycleVars, countVars, rt_hist, clkVars, ioVars>>

\* timer_callback (piclock.py 412-414): under the lock, set the tick-due flag
\* unless paused
TimerSignal ==
    /\ ProcessRunning
    /\ timer_pc = "signal"
    /\ lock = "free"
    /\ IF paused
       THEN UNCHANGED <<tick_event, signals>>
       ELSE tick_event' = TRUE /\ signals' = signals + 1
    /\ timer_pc' = "sleep"
    /\ UNCHANGED <<posVars, modeVars, thresholdVars, hwVars, lock, shutdown_event,
                   main_pc, cycleVars, ticks, elapsed, subsec, rt_hist, clkVars, ioVars>>

\* run (piclock.py 784): tick_event.wait(timeout=1) returns because the flag
\* is set
\* a wait that clears the flag as it returns, before the lock is taken
MainWaitSignalled_clearing ==
    /\ main_pc = "wait"
    /\ handler_pc = "none"
    /\ tick_event = TRUE
    /\ tick_event' = FALSE
    /\ main_pc' = "woke"
    /\ UNCHANGED <<posVars, modeVars, thresholdVars, hwVars, lock,
                   shutdown_event, timer_pc, cycleVars, countVars, rt_hist, clkVars, ioVars>>

MainWaitSignalled ==
    /\ main_pc = "wait"
    /\ handler_pc = "none"
    /\ tick_event = TRUE
    /\ main_pc' = "woke"
    /\ UNCHANGED <<posVars, modeVars, thresholdVars, hwVars, lock, tick_event,
                   shutdown_event, timer_pc, cycleVars, countVars, rt_hist, clkVars, ioVars>>

\* run (piclock.py 784): tick_event.wait(timeout=1) returns on its timeout,
\* the flag not set; the return value is not looked at
MainWaitTimeout ==
    /\ main_pc = "wait"
    /\ handler_pc = "none"
    /\ tick_event = FALSE
    /\ main_pc' = "woke"
    /\ UNCHANGED <<posVars, modeVars, thresholdVars, hwVars, lock, tick_event,
                   shutdown_event, timer_pc, cycleVars, countVars, rt_hist, clkVars, ioVars>>

\* run (piclock.py 785-790): leave on shutdown; else take the lock, clear the
\* flag and, unless paused, enter the cycle
MainBeginCycle ==
    /\ main_pc = "woke"
    /\ handler_pc = "none"
    /\ IF shutdown_event
       THEN /\ main_pc' = "exited"
            /\ UNCHANGED <<lock, tick_event>>
       ELSE /\ lock = "free"
            /\ tick_event' = FALSE
            /\ IF paused
               THEN main_pc' = "wait" /\ UNCHANGED lock
               ELSE main_pc' = "sync" /\ lock' = "main"
    /\ UNCHANGED <<posVars, modeVars, thresholdVars, hwVars, shutdown_event,
                   timer_pc, cycleVars, countVars, rt_hist, clkVars, ioVars>>

\* synchronize_clock (piclock.py 355-357): the RTC cannot be read, the cycle
\* returns without a tick
MainSyncNoTime ==
    /\ main_pc = "sync"
    /\ handler_pc = "none"
    /\ main_pc' = "persist"
    /\ UNCHANGED <<posVars, modeVars, thresholdVars, hwVars, lock, tick_event,
                   shutdown_event, timer_pc, cycleVars, countVars, rt_hist, clkVars, ioVars>>

\* synchronize_clock (piclock.py 359-360): the RTC is read and
\* calculate_time_difference raises TypeError on the position None; nothing
\* in run catches it (piclock.py 793), the lock is released on the way out
MainSyncRaises ==
    /\ main_pc = "sync"
    /\ handler_pc = "none"
    /\ hardware_available
    /\ calculate_time_difference_raises(clock_hour, clock_minute, clock_second)
    /\ main_pc' = "crashed"
    /\ lock' = "free"
    /\ UNCHANGED <<posVars, modeVars, thresholdVars, hwVars, tick_event,
                   shutdown_event, timer_pc, cycleVars, countVars, rt_hist, clkVars, ioVars>>

\* synchronize_clock (piclock.py 359-380) and the first
\* statements of the tick it calls (233-234, 246-247, 259-260): offset,
\* decision, fast_forward, reverse, current_speed
MainSyncDecide ==
    /\ main_pc = "sync"
    /\ handler_pc = "none"
    /\ hardware_available
    /\ ~calculate_time_difference_raises(clock_hour, clock_minute, clock_second)
    /\ ticks < MaxTicks
    /\ LET diff == calculate_time_difference(clock_hour, clock_minute, clock_second,
                                             rtc[1], rtc[2], rtc[3])
           tick == synchronize_clock_tick(diff, diff_threshold_hh, diff_threshold_mm,
                                          diff_threshold_ss)
       IN  /\ seen_pos' = posVars
           /\ total_seconds_diff' = diff
           /\ last_tick' = tick
           /\ fast_forward' = (tick = "fast_forward_tick")
           /\ reverse' = (tick = "reverse_tick")
           /\ current_speed' = tick_speed(tick)
    /\ main_pc' = "pulse"
    /\ UNCHANGED <<posVars, current_tick_pin, paused, thresholdVars, hwVars, lock,
                   tick_event, shutdown_event, timer_pc, time_string, countVars,
                   rt_hist, clkVars, ioVars>>

\* the pulses of the tick and the switch of the output (piclock.py 237-241,
\* 250-254, 262-290)
MainPulse ==
    /\ main_pc = "pulse"
    /\ handler_pc = "none"
    /\ current_tick_pin' = IF last_tick = "reverse_tick"
                           THEN toggle_reverse(current_tick_pin)
                           ELSE toggle_forward(current_tick_pin)
    /\ main_pc' = "update"
    /\ UNCHANGED <<posVars, fast_forward, paused, reverse, current_speed,
                   thresholdVars, hwVars,
                   lock, tick_event, shutdown_event, timer_pc, cycleVars, countVars,
                   rt_hist, clkVars, ioVars>>

\* update_clock_position at the end of the tick (piclock.py 242, 255, 292)
MainUpdate ==
    /\ main_pc = "update"
    /\ handler_pc = "none"
    /\ LET new == update_clock_position(clock_hour, clock_minute, clock_second,
                                        last_tick = "reverse_tick")
       IN  /\ clock_hour' = new[1]
           /\ clock_minute' = new[2]
           /\ clock_second' = new[3]
    /\ ticks' = ticks + 1
    /\ main_pc' = "persist"
    /\ UNCHANGED <<modeVars, thresholdVars, hwVars, lock, tick_event, shutdown_event,
                   timer_pc, cycleVars, signals, elapsed, subsec, rt_hist, clkVars, ioVars>>

\* a write of the position the cycle started from
MainPersist_before_advance ==
    /\ main_pc = "persist"
    /\ handler_pc = "none"
    /\ \E written \in BOOLEAN :
          IF written /\ hardware_available
             /\ ~format_time_string_raises(seen_pos[1], seen_pos[2], seen_pos[3])
          THEN fram' = format_time_string(seen_pos[1], seen_pos[2], seen_pos[3])
          ELSE UNCHANGED fram
    /\ lock' = "free"
    /\ main_pc' = "wait"
    /\ UNCHANGED <<posVars, modeVars, thresholdVars, hardware_available, rtc,
                   tick_event, shutdown_event, timer_pc, cycleVars, countVars,
                   rt_hist, clkVars, ioVars>>

\* write_time_to_fram and the end of the locked block (piclock.py 141-151,
\* 792): the record is written when the hardware takes it and the position
\* formats; any failure is logged
MainPersist ==
    /\ main_pc = "persist"
    /\ handler_pc = "none"
    /\ \E written \in BOOLEAN :
          IF written /\ hardware_available
             /\ ~format_time_string_raises(clock_hour, clock_minute, clock_second)
          THEN fram' = format_time_string(clock_hour, clock_minute, clock_second)
          ELSE UNCHANGED fram
    /\ lock' = "free"
    /\ main_pc' = "wait"
    /\ UNCHANGED <<posVars, modeVars, thresholdVars, hardware_available, rtc,
                   tick_event, shutdown_event, timer_pc, cycleVars, countVars,
                   rt_hist, clkVars, ioVars>>

\* a pause that also puts the mode flags back to normal ticking
pause_clock_resetting_mode ==
    /\ main_pc \notin {"start", "exited", "crashed"}
    /\ handler_pc = "none"
    /\ ~paused
    /\ paused' = TRUE
    /\ fast_forward' = FALSE
    /\ reverse' = FALSE
    /\ UNCHANGED <<posVars, current_tick_pin, current_speed, thresholdVars,
                   hwVars, threadVars, cycleVars, countVars, rt_hist, clkVars, ioVars>>

\* POST /api/pause_clock (piclock.py 635-638)
pause_clock ==
    /\ main_pc \notin {"start", "exited", "crashed"}
    /\ handler_pc = "none"
    /\ ~paused
    /\ paused' = TRUE
    /\ UNCHANGED <<posVars, current_tick_pin, fast_forward, reverse, current_speed,
                   thresholdVars,
                   hwVars, threadVars, cycleVars, countVars, rt_hist, clkVars, ioVars>>

\* POST /api/resume_clock (piclock.py 640-643)
resume_clock ==
    /\ main_pc \notin {"start", "exited", "crashed"}
    /\ handler_pc = "none"
    /\ paused
    /\ paused' = FALSE
    /\ UNCHANGED <<posVars, current_tick_pin, fast_forward, reverse, current_speed,
                   thresholdVars,
                   hwVars, threadVars, cycleVars, countVars, rt_hist, clkVars, ioVars>>

\* POST /api/set_clock_time with fields in range (piclock.py 528-563): the
\* position under clock_position_lock, then the RTC when there is one
set_clock_time ==
    /\ main_pc \notin {"start", "exited", "crashed"}
    /\ handler_pc = "none"
    /\ \E t \in SetTimeRequests :
          /\ ValidPosition(t[1], t[2], t[3])
          /\ posVars # t
          /\ clock_hour' = t[1]
          /\ clock_minute' = t[2]
          /\ clock_second' = t[3]
          /\ rtc' = set_rtc_time(hardware_available, rtc, t)
    /\ UNCHANGED <<modeVars, thresholdVars, hardware_available, fram, threadVars,
                   cycleVars, countVars, rt_hist, clkVars, ioVars>>

\* the RTC counts a second
RtcSecond ==
    /\ hardware_available
    /\ main_pc \notin {"start", "exited", "crashed"}
    /\ handler_pc = "none"
    /\ elapsed < MaxElapsed
    /\ rtc' = rtc_after(rtc, 1)
    /\ elapsed' = elapsed + 1
    /\ UNCHANGED <<posVars, modeVars, thresholdVars, hardware_available, fram,
                   threadVars, cycleVars, ticks, signals, subsec, rt_hist, clkVars, ioVars>>

\* POST / with set_time and fields in range (piclock.py 433-454): the
\* position under clock_position_lock, then the RTC when there is one
index_set_time ==
    /\ main_pc \notin {"start", "exited", "crashed"}
    /\ handler_pc = "none"
    /\ \E t \in SetTimeRequests :
          /\ ValidPosition(t[1], t[2], t[3])
          /\ posVars # t
          /\ clock_hour' = t[1]
          /\ clock_minute' = t[2]
          /\ clock_second' = t[3]
          /\ rtc' = set_rtc_time(hardware_available, rtc, t)
    /\ UNCHANGED <<modeVars, thresholdVars, hardware_available, fram, threadVars,
                   cycleVars, countVars, rt_hist, clkVars, ioVars>>

\* POST /config with set_time and fields in range (piclock.py 470-488): the
\* position under clock_position_lock; set_rtc_time is not called
config_set_time ==
    /\ main_pc \notin {"start", "exited", "crashed"}
    /\ handler_pc = "none"
    /\ \E t \in SetTimeRequests :
          /\ ValidPosition(t[1], t[2], t[3])
          /\ posVars # t
          /\ clock_hour' = t[1]
          /\ clock_minute' = t[2]
          /\ clock_second' = t[3]
    /\ UNCHANGED <<modeVars, thresholdVars, hwVars, threadVars,
                   cycleVars, countVars, rt_hist, clkVars, ioVars>>

\* continuous_sync_rtc_time_with_ntp_time (piclock.py 187-188): the loop
\* test, then one sync_rtc_time_with_ntp_time with whatever the server
\* answers
SyncRequest ==
    /\ ProcessRunning
    /\ sync_pc = "request"
    /\ IF shutdown_event
       THEN /\ sync_pc' = "exited"
            /\ UNCHANGED <<ntp_time, rtc, syncs>>
       ELSE /\ \E answer \in NtpAnswers :
                  /\ ntp_time' = answer
                  /\ rtc' = sync_rtc_time_with_ntp_time(hardware_available, rtc, answer)
            /\ syncs' = syncs + 1
            /\ sync_pc' = "sleep"
    /\ UNCHANGED <<posVars, modeVars, thresholdVars, hardware_available, fram,
                   threadVars, cycleVars, countVars, rt_hist, clkVars, pulse_result,
                   handler_pc, gpio_released,
                   tickVars, appVars, cadenceVars, mgrVars, web_log>>

\* continuous_sync_rtc_time_with_ntp_time (piclock.py 189-193): the sleep
\* of the interval in steps of one second, left early on shutdown
SyncSleep ==
    /\ ProcessRunning
    /\ sync_pc = "sleep"
    /\ syncs < MaxSyncs \/ shutdown_event
    /\ sync_pc' = IF shutdown_event THEN "exited" ELSE "request"
    /\ UNCHANGED <<posVars, modeVars, thresholdVars, hwVars, threadVars, cycleVars,
                   countVars, rt_hist, clkVars, pulse_result, ntp_time, syncs,
                   handler_pc, gpio_released,
                   tickVars, appVars, cadenceVars, mgrVars, web_log>>

\* _signal_handler (piclock.py 416-419), which Python runs on the main
\* thread between two of its instructions: the flag is set.  Signals before
\* the loops are started are left out.
SignalReceived ==
    /\ ProcessRunning
    /\ main_pc \notin {"start", "exited"}
    /\ handler_pc = "none"
    /\ shutdown_event' = TRUE
    /\ handler_pc' = "sleep"
    /\ UNCHANGED <<posVars, modeVars, thresholdVars, hwVars, lock, tick_event, main_pc,
                   timer_pc, cycleVars, countVars, rt_hist, clkVars, pulse_result,
                   sync_pc, ntp_time, syncs, gpio_released,
                   tickVars, appVars, cadenceVars, mgrVars, web_log>>

\* _signal_handler (piclock.py 420-426): the sleep of one second is over,
\* GPIO.cleanup releases the outputs when there is hardware
HandlerCleanup ==
    /\ handler_pc \in {"sleep", "sleep_again"}
    /\ gpio_released' = (gpio_released \/ hardware_available)
    /\ handler_pc' = IF handler_pc = "sleep" THEN "exit" ELSE "exit_again"
    /\ UNCHANGED <<posVars, modeVars, thresholdVars, hwVars, threadVars, cycleVars,
                   countVars, rt_hist, clkVars, pulse_result, sync_pc, ntp_time, syncs,
                   tickVars, appVars, cadenceVars, mgrVars, web_log>>

\* _signal_handler (piclock.py 427) and run (793-794): sys.exit raises
\* SystemExit where the main loop was interrupted; it leaves the loop,
\* releasing the lock, and run's except clause calls the handler a second
\* time, whose sys.exit ends the process.  The second sleep of one second
\* outlasts the sleeps of the other loops (at most one second each, 193,
\* 388-409), so they have looked at the flag by then.
HandlerExit ==
    \/ /\ handler_pc = "exit"
       /\ main_pc' = "exited"
       /\ lock' = "free"
       /\ handler_pc' = "sleep_again"
       /\ UNCHANGED <<posVars, modeVars, thresholdVars, hwVars, tick_event,
                      shutdown_event, timer_pc, cycleVars, countVars, rt_hist, clkVars,
                      pulse_result, sync_pc, ntp_time, syncs, gpio_released,
                   tickVars, appVars, cadenceVars, mgrVars, web_log>>
    \/ /\ handler_pc = "exit_again"
       /\ timer_pc = "exited" /\ sync_pc = "exited"
       /\ handler_pc' = "done"
       /\ UNCHANGED <<posVars, modeVars, thresholdVars, hwVars, threadVars, cycleVars,
                      countVars, rt_hist, clkVars, pulse_result, sync_pc, ntp_time,
                      syncs, gpio_released,
                   tickVars, appVars, cadenceVars, mgrVars, web_log>>

Next ==
    \/ RunStartup
    \/ TimerWake
    \/ TimerSignal
    \/ MainWaitSignalled
    \/ MainWaitTimeout
    \/ MainBeginCycle
    \/ MainSyncNoTime
    \/ MainSyncRaises
    \/ MainSyncDecide
    \/ MainPulse
    \/ MainUpdate
    \/ MainPersist
    \/ pause_clock
    \/ resume_clock
    \/ set_clock_time
    \/ RtcSecond
    \/ index_set_time
    \/ config_set_time
    \/ SyncRequest
    \/ SyncSleep
    \/ SignalReceived
    \/ HandlerCleanup
    \/ HandlerExit

Spec == Init /\ [][Next]_vars

\* C8: while paused is true the cadence and main loops never change the hand
\* position, however often the tick-due flag fires; they change it again
\* only after resume: no step of the main loop taken with paused true moves
\* the hands.
C8_PausedFreezesPosition ==
    [][(paused /\ main_pc' # main_pc) => posVars' = posVars]_vars

\* C9: the main loop runs a cycle only in an iteration whose wait was ended
\* by the tick-due flag, so the cycles that ticked never outnumber the
\* tick-due signals.
C9_TicksNeverExceedSignals == ticks <= signals

\* C10: when no usable record is loaded at startup the engine starts from a
\* valid default hand position and its cycles run without an exception
\* ending the main loop.
C10_DefaultPositionOnBadRecord ==
    (main_pc # "start" /\ time_string = <<>>)
        => (ValidPosition(clock_hour, clock_minute, clock_second) /\ main_pc # "crashed")

\* the main loop has been ended by the TypeError of a cycle on position None
C10_CrashWitness ==
    /\ main_pc = "crashed"
    /\ time_string = <<>>
    /\ clock_hour = None

\* C11: when the RTC read of a non-paused cycle fails, the cycle still makes
\* a normal forward tick: the step that ends synchronize_clock without a
\* time advances a valid hand position by one second.
C11_TicksWithoutTime ==
    [][(/\ main_pc = "sync"
        /\ ValidPosition(clock_hour, clock_minute, clock_second)
        /\ main_pc' = "persist")
          => posVars' = update_clock_position(clock_hour, clock_minute,
                                              clock_second, FALSE)]_vars

\* C13: no set-time write lands inside a cycle: from the decision to the
\* position update, the position is the one the decision was computed from.
C13_NoSetTimeInsideCycle ==
    main_pc \in {"pulse", "update"} => posVars = seen_pos

\* a set-time request has replaced the position between a cycle's decision
\* and its position update
C13_InterleavedWitness ==
    /\ main_pc = "update"
    /\ ValidPosition(seen_pos[1], seen_pos[2], seen_pos[3])
    /\ posVars \in SetTimeRequests
    /\ posVars # seen_pos

(***************************************************************************)
(* SpecPulse: forward_tick, fast_forward_tick and reverse_tick (piclock.py *)
(* 231-292) called in any order, each pulse either emitted, skipped for    *)
(* want of hardware, or failing in the GPIO call.                          *)
(***************************************************************************)
MaxPulseTicks == 3

\* seconds on both sides of the reverse regions' limits (piclock.py 49-50)
SamplePulseSeconds == {0, 34, 35, 54, 55, 59}

\* a send_pwm_pulse that lets the GPIO failure out instead of logging it
send_pwm_pulse_propagating(hw, gpio_ok) ==
    IF ~hw THEN "unavailable"
    ELSE IF gpio_ok THEN "emitted"
    ELSE "raised"

\* send_pwm_pulse (piclock.py 217-229): how the call ends; it returns in
\* every case, the GPIO exception being caught and logged (228-229)
send_pwm_pulse(hw, gpio_ok) ==
    IF ~hw THEN "unavailable"
    ELSE IF gpio_ok THEN "emitted"
    ELSE "failed"

InitPulse ==
    /\ clock_hour \in Hours12
    /\ clock_minute \in SampleMinutes
    /\ clock_second \in SamplePulseSeconds
    /\ hardware_available \in BOOLEAN
    /\ rtc = <<0, 0, 0>>
    /\ fram = <<>>
    /\ rt_hist = <<>>
    /\ ConstructedMode /\ DefaultThresholds
    /\ IdleThreads /\ IdleCycle /\ ZeroCounts /\ UnusedClock /\ IdleServices

\* the statements of a forward tick after its first two assignments
\* (piclock.py 237-242, 250-255): one pulse, the output switched, the
\* position updated; an exception out of the pulse ends the tick there
OnePulseTick(gpio_ok) ==
    LET r == send_pwm_pulse(hardware_available, gpio_ok)
        new == update_clock_position(clock_hour, clock_minute, clock_second, FALSE)
    IN  /\ pulse_result' = <<r>>
        /\ IF r = "raised"
           THEN UNCHANGED <<current_tick_pin, posVars>>
           ELSE /\ current_tick_pin' = toggle_forward(current_tick_pin)
                /\ clock_hour' = new[1]
                /\ clock_minute' = new[2]
                /\ clock_second' = new[3]

\* ClockController.forward_tick (piclock.py 231-242)
forward_tick ==
    /\ ticks < MaxPulseTicks
    /\ reverse' = FALSE
    /\ current_speed' = 1
    /\ \E gpio_ok \in BOOLEAN : OnePulseTick(gpio_ok)
    /\ ticks' = ticks + 1
    /\ UNCHANGED <<fast_forward, paused, thresholdVars, hwVars, threadVars, cycleVars,
                   signals, elapsed, subsec, rt_hist, clkVars, sync_pc, ntp_time,
                   syncs, handler_pc, gpio_released,
                   tickVars, appVars, cadenceVars, mgrVars, web_log>>

\* ClockController.fast_forward_tick (piclock.py 244-255)
fast_forward_tick ==
    /\ ticks < MaxPulseTicks
    /\ reverse' = FALSE
    /\ current_speed' = fwd_speedup
    /\ \E gpio_ok \in BOOLEAN : OnePulseTick(gpio_ok)
    /\ ticks' = ticks + 1
    /\ UNCHANGED <<fast_forward, paused, thresholdVars, hwVars, threadVars, cycleVars,
                   signals, elapsed, subsec, rt_hist, clkVars, sync_pc, ntp_time,
                   syncs, handler_pc, gpio_released,
                   tickVars, appVars, cadenceVars, mgrVars, web_log>>

\* ClockController.reverse_tick (piclock.py 257-292): the short pulse, the
\* output switched, the long pulse, the position updated
reverse_tick ==
    /\ ticks < MaxPulseTicks
    /\ reverse' = TRUE
    /\ current_speed' = rev_speedup
    /\ \E ok1 \in BOOLEAN, ok2 \in BOOLEAN :
          LET r1 == send_pwm_pulse(hardware_available, ok1)
              r2 == send_pwm_pulse(hardware_available, ok2)
              new == update_clock_position(clock_hour, clock_minute, clock_second, TRUE)
          IN  IF r1 = "raised"
              THEN /\ pulse_result' = <<r1>>
                   /\ UNCHANGED <<current_tick_pin, posVars>>
              ELSE /\ pulse_result' = <<r1, r2>>
                   /\ current_tick_pin' = toggle_reverse(current_tick_pin)
                   /\ IF r2 = "raised"
                      THEN UNCHANGED posVars
                      ELSE /\ clock_hour' = new[1]
                           /\ clock_minute' = new[2]
                           /\ clock_second' = new[3]
    /\ ticks' = ticks + 1
    /\ UNCHANGED <<fast_forward, paused, thresholdVars, hwVars, threadVars, cycleVars,
                   signals, elapsed, subsec, rt_hist, clkVars, sync_pc, ntp_time,
                   syncs, handler_pc, gpio_released,
                   tickVars, appVars, cadenceVars, mgrVars, web_log>>

NextPulse ==
    \/ forward_tick
    \/ fast_forward_tick
    \/ reverse_tick

SpecPulse == InitPulse /\ [][NextPulse]_vars

\* some pulse of the tick was not emitted
PulseNotEmitted(results) ==
    \E i \in 1..Len(results) : results[i] # "emitted"

\* C12: a tick whose pulse cannot be emitted (no hardware, or the GPIO call
\* raises) still completes: the output is switched and the hand position
\* moves by exactly one second in the tick's direction.
C12_TickSurvivesPulseFailure ==
    [][PulseNotEmitted(pulse_result')
          => /\ current_tick_pin' # current_tick_pin
             /\ posVars' = update_clock_position(clock_hour, clock_minute,
                                                 clock_second, reverse')]_vars

\* a reverse tick whose GPIO calls failed, and a forward tick without
\* hardware, have been made
C12_Witness ==
    /\ ticks > 0
    /\ \/ hardware_available /\ reverse /\ pulse_result = <<"failed", "failed">>
       \/ ~hardware_available /\ ~reverse /\ pulse_result = <<"unavailable">>

(***************************************************************************)
(* SpecRecord: the persisted record (piclock.py 141-174, 754-760).  The    *)
(* controller starts either with a hand position and a blank chip, or with *)
(* no position and some 8-byte (or truncated) record on the chip; the      *)
(* record is loaded as run loads it and written as the cycle writes it.    *)
(***************************************************************************)
BlankRecord == <<"NUL", "NUL", "NUL", "NUL", "NUL", "NUL", "NUL", "NUL">>

\* two-character fields: padded numbers in and out of range, blanks and
\* signs next to a digit, letters
SampleFields ==
    { <<"0", "0">>, <<"0", "1">>, <<"0", "9">>, <<"1", "2">>, <<"1", "3">>,
      <<"5", "9">>, <<"6", "0">>, <<"9", "9">>, <<" ", "5">>, <<"5", " ">>,
      <<"+", "5">>, <<"-", "0">>, <<"-", "1">>, <<"a", "1">>, <<"1", "a">> }

SampleSeparators == {":", "-"}

SampleRecords ==
    { f1 \o <<s1>> \o f2 \o <<s2>> \o f3 :
        f1 \in SampleFields, f2 \in SampleFields, f3 \in SampleFields,
        s1 \in SampleSeparators, s2 \in SampleSeparators }
    \cup { <<"1", "2", ":", "0", "0", ":", "0">>, <<>> }

\* the position run seeds from a loaded record (piclock.py 756-760)
seed_position(rec) ==
    LET t == parse_time_string(rec)
    IN  <<IF t[1] % 12 = 0 THEN 12 ELSE t[1] % 12, t[2], t[3]>>

InitRecord ==
    /\ \/ /\ clock_hour \in Hours12 /\ clock_minute \in Sixty /\ clock_second \in Sixty
          /\ fram = BlankRecord
       \/ /\ clock_hour = None /\ clock_minute = None /\ clock_second = None
          /\ fram \in SampleRecords
    /\ hardware_available = TRUE
    /\ rtc = <<0, 0, 0>>
    /\ rt_hist = <<>>
    /\ ConstructedMode /\ DefaultThresholds
    /\ IdleThreads /\ IdleCycle /\ ZeroCounts /\ UnusedClock /\ IdleServices

\* run (piclock.py 754-760): read the record and, when there is one, seed
\* the position from it
RecordLoad ==
    /\ LET loaded == read_time_from_fram(hardware_available, fram)
       IN  /\ time_string' = loaded
           /\ IF loaded # <<>>
              THEN /\ clock_hour' = seed_position(loaded)[1]
                   /\ clock_minute' = seed_position(loaded)[2]
                   /\ clock_second' = seed_position(loaded)[3]
              ELSE UNCHANGED posVars
    /\ UNCHANGED <<modeVars, thresholdVars, hwVars, threadVars, seen_pos,
                   total_seconds_diff, last_tick, countVars, rt_hist, clkVars, ioVars>>

\* write_time_to_fram (piclock.py 141-151); seen_pos keeps the position
\* that was formatted
write_time_to_fram ==
    /\ hardware_available
    /\ IF format_time_string_raises(clock_hour, clock_minute, clock_second)
       THEN UNCHANGED <<fram, seen_pos>>
       ELSE /\ fram' = format_time_string(clock_hour, clock_minute, clock_second)
            /\ seen_pos' = posVars
    /\ UNCHANGED <<posVars, modeVars, thresholdVars, hardware_available, rtc,
                   threadVars, time_string, total_seconds_diff, last_tick, countVars,
                   rt_hist, clkVars, ioVars>>

NextRecord ==
    \/ RecordLoad
    \/ write_time_to_fram

SpecRecord == InitRecord /\ [][NextRecord]_vars

\* 'HH:MM:SS': eight characters, digits around two colons
ExactShape(rec) ==
    /\ Len(rec) = 8
    /\ rec[3] = ":" /\ rec[6] = ":"
    /\ \A i \in {1, 2, 4, 5, 7, 8} : IsDigit(rec[i])

\* the numbers the digits of an exactly shaped record stand for
ShapeValue(rec) ==
    <<10 * DigitValue(rec[1]) + DigitValue(rec[2]),
      10 * DigitValue(rec[4]) + DigitValue(rec[5]),
      10 * DigitValue(rec[7]) + DigitValue(rec[8])>>

\* C14: the record written for a valid hand position p is exactly 8 bytes
\* 'HH:MM:SS', is accepted by read_time_from_fram, parses back to p, and
\* writing the loaded position again gives the identical 8 bytes.
C14_RecordRoundTrip ==
    ValidPosition(seen_pos[1], seen_pos[2], seen_pos[3])
        => /\ ExactShape(fram)
           /\ ShapeValue(fram) = seen_pos
           /\ read_time_from_fram(hardware_available, fram) = fram
           /\ seed_position(fram) = seen_pos
           /\ format_time_string(seed_position(fram)[1], seed_position(fram)[2],
                                 seed_position(fram)[3]) = fram

\* a one-digit-hour position has been written, loaded back at a restart and
\* is the position again
C14_Witness ==
    /\ seen_pos = <<9, 5, 7>>
    /\ time_string = fram
    /\ posVars = seen_pos
    /\ fram = <<"0", "9", ":", "0", "5", ":", "0", "7">>

\* C15: read_time_from_fram returns a time only for a record of exactly two
\* decimal digits, ':', two digits, ':', two digits, with hour in 1..12,
\* minute and second in 0..59; every other record is treated as absent.
C15_OnlyExactRecordsAccepted ==
    time_string # <<>>
        => /\ ExactShape(time_string)
           /\ ValidPosition(ShapeValue(time_string)[1], ShapeValue(time_string)[2],
                            ShapeValue(time_string)[3])

\* a record with a blank and a sign in its fields has been accepted and the
\* position seeded from it
C15_AcceptedWitness ==
    /\ time_string = <<" ", "5", ":", "-", "0", ":", "+", "5">>
    /\ posVars = <<5, 0, 5>>

(***************************************************************************)
(* SpecShutdown: the three loops, pause and resume, and the signal handler *)
(* under fair scheduling: a sleep that is over returns, a thread that can  *)
(* run does run, the handler's calls return.                               *)
(***************************************************************************)
InitShutdown ==
    /\ clock_hour = None /\ clock_minute = None /\ clock_second = None
    /\ hardware_available \in BOOLEAN
    /\ rtc = <<3, 0, 45>>
    /\ fram \in (IF hardware_available THEN FramRecords ELSE {<<>>})
    /\ lock = "free"
    /\ tick_event = FALSE
    /\ shutdown_event = FALSE
    /\ main_pc = "start"
    /\ timer_pc = "idle"
    /\ rt_hist = <<>>
    /\ ConstructedMode /\ DefaultThresholds /\ IdleCycle /\ ZeroCounts
    /\ UnusedClock /\ IdleServices

NextShutdown ==
    \/ RunStartup
    \/ TimerWake
    \/ TimerSignal
    \/ MainWaitSignalled
    \/ MainWaitTimeout
    \/ MainBeginCycle
    \/ MainSyncNoTime
    \/ MainSyncRaises
    \/ MainSyncDecide
    \/ MainPulse
    \/ MainUpdate
    \/ MainPersist
    \/ pause_clock
    \/ resume_clock
    \/ SyncRequest
    \/ SyncSleep
    \/ SignalReceived
    \/ HandlerCleanup
    \/ HandlerExit

SpecShutdown ==
    /\ InitShutdown
    /\ [][NextShutdown]_vars
    /\ WF_vars(TimerWake)
    /\ WF_vars(TimerSignal)
    /\ WF_vars(SyncRequest)
    /\ WF_vars(SyncSleep)
    /\ WF_vars(HandlerCleanup)
    /\ WF_vars(HandlerExit)

C17_ReleaseAfterLoopsExit ==
    gpio_released
        => /\ shutdown_event
           /\ main_pc = "exited" /\ timer_pc = "exited" /\ sync_pc = "exited"

\* the outputs have been released while a cycle of the main loop is
\* between its decision and its pulse
C17_MidCycleWitness ==
    /\ gpio_released
    /\ handler_pc = "exit"
    /\ main_pc = "pulse"
    /\ lock = "main"

\* C18: when an exception ends the main loop of run, the engine shuts down:
\* the cancellation flag is set and the hardware resources are released.
C18_FaultShutsDown ==
    main_pc = "crashed" => (shutdown_event /\ gpio_released)

\* the main loop has been ended by an exception with hardware attached, the
\* flag unset and the outputs not released
C18_Witness ==
    /\ main_pc = "crashed"
    /\ hardware_available
    /\ ~shutdown_event
    /\ ~gpio_released
    /\ handler_pc = "none"

\* C19: every manual set-position operation that stores a new hand position
\* also writes the same hour, minute and second to the RTC: a step of a web
\* request that changes the position leaves the RTC at that position.
C19_SetPositionSetsRtc ==
    [][(hardware_available /\ main_pc' = main_pc /\ posVars' # posVars)
          => rtc' = posVars']_vars

\* the form of /config has set the position and the offset to the RTC is
\* beyond the thresholds
C19_ConfigWitness ==
    /\ hardware_available
    /\ posVars \in SetTimeRequests
    /\ syncs = 0
    /\ elapsed = 0
    /\ should_use_fast_forward_or_reverse(
           calculate_time_difference(clock_hour, clock_minute, clock_second,
                                     rtc[1], rtc[2], rtc[3]),
           diff_threshold_hh, diff_threshold_mm, diff_threshold_ss)

\* C20: in the resync loop, when the NTP read fails the RTC is not written
\* in that iteration; the previous reference is kept and the loop goes on
\* to its sleep.
C20_FailedResyncKeepsRtc ==
    [][(sync_pc = "request" /\ sync_pc' = "sleep" /\ ntp_time' = <<>>)
          => rtc' = rtc]_vars

\* a resync whose NTP request failed has been made and the loop sleeps
C20_Witness ==
    /\ sync_pc = "sleep"
    /\ syncs = 1
    /\ ntp_time = <<>>
    /\ hardware_available
    /\ rtc = <<3, 0, 45>>

\* C21: a non-paused cycle whose RTC read succeeds changes the hand position
\* by exactly one second: +1 modulo 43200 after a normal or fast-forward
\* tick, -1 modulo 43200 after a reverse tick, and the position stays valid.
C21_CycleMovesOneSecond ==
    last_tick # "none"
        => /\ ValidPosition(clock_hour, clock_minute, clock_second)
           /\ HandSeconds(posVars)
                = (HandSeconds(seen_pos)
                     + (IF last_tick = "reverse_tick" THEN -1 ELSE 1)) % 43200

\* a reverse cycle has taken the hands from 12:00:00 back to 11:59:59, and
\* the cases of the other two decisions across the same rollover
C21_Witness ==
    \/ last_tick = "reverse_tick" /\ seen_pos = <<12, 0, 0>> /\ posVars = <<11, 59, 59>>
    \/ last_tick = "fast_forward_tick" /\ seen_pos = <<11, 59, 59>>
          /\ posVars = <<12, 0, 0>> /\ total_seconds_diff > 1
    \/ last_tick = "forward_tick" /\ seen_pos = <<11, 59, 59>>
          /\ posVars = <<12, 0, 0>> /\ total_seconds_diff = 0

\* C22: every completed forward, fast-forward or reverse tick leaves
\* current_tick_pin on the other of the two outputs, and current_tick_pin is
\* always tick_pin1 or tick_pin2.
C22_PinAlternates ==
    [][/\ current_tick_pin \in {tick_pin1, tick_pin2}
       /\ ticks' = ticks + 1
            => /\ current_tick_pin' # current_tick_pin
               /\ current_tick_pin' \in {tick_pin1, tick_pin2}]_vars

C22_Witness ==
    /\ ticks = 2
    /\ reverse
    /\ current_tick_pin = tick_pin1
    /\ pulse_result = <<"emitted", "emitted">>

(***************************************************************************)
(* SpecTick: one tick of ClockController step by step: the pulse requests, *)
(* the output switch, the inter-pulse delay and the position update, with  *)
(* clock_position_lock taken and released where the code does, and a web   *)
(* request reading the position (get_clock_time) alongside.                *)
(***************************************************************************)
MaxStepTicks == 2

\* pulse parameters of ClockController.__init__ (piclock.py 39-60)
norm_tick_ms == 31
norm_tick_on_us == 60
fwd_tick_ms == 32
fwd_tick_on_us == 60
rev_ticka_lo == 35
rev_ticka_hi == 55
rev_ticka_t1_ms == 10
rev_ticka_t2_ms == 7
rev_ticka_t3_ms == 28
rev_ticka_on_us == 90
rev_tickb_t1_ms == 10
rev_tickb_t2_ms == 7
rev_tickb_t3_ms == 28
rev_tickb_on_us == 82

\* the region test applied to the second the tick leaves behind
reverse_profile_after_update(second) ==
    IF rev_ticka_lo <= (second - 1) % 60 /\ (second - 1) % 60 < rev_ticka_hi
    THEN <<rev_ticka_t1_ms, rev_ticka_t2_ms, rev_ticka_t3_ms, rev_ticka_on_us>>
    ELSE <<rev_tickb_t1_ms, rev_tickb_t2_ms, rev_tickb_t3_ms, rev_tickb_on_us>>

\* reverse_tick's choice of t1, t2, t3 and on_us (piclock.py 265-277)
reverse_profile(second) ==
    IF rev_ticka_lo <= second /\ second < rev_ticka_hi
    THEN <<rev_ticka_t1_ms, rev_ticka_t2_ms, rev_ticka_t3_ms, rev_ticka_on_us>>
    ELSE <<rev_tickb_t1_ms, rev_tickb_t2_ms, rev_tickb_t3_ms, rev_tickb_on_us>>

TickKinds == {"forward_tick", "fast_forward_tick", "reverse_tick"}

InitTick ==
    /\ clock_hour \in Hours12
    /\ clock_minute \in SampleMinutes
    /\ clock_second \in SamplePulseSeconds
    /\ hardware_available \in BOOLEAN
    /\ rtc = <<0, 0, 0>>
    /\ fram = <<>>
    /\ rt_hist = <<>>
    /\ lock = "free"
    /\ tick_event = FALSE
    /\ shutdown_event = FALSE
    /\ main_pc = "idle"
    /\ timer_pc = "idle"
    /\ ConstructedMode /\ DefaultThresholds
    /\ IdleCycle /\ ZeroCounts /\ UnusedClock /\ IdleServices

\* entry of forward_tick, fast_forward_tick or reverse_tick: reverse and
\* current_speed are set (piclock.py 233-234, 246-247, 259-260)
TickEnter ==
    /\ main_pc = "idle"
    /\ ticks < MaxStepTicks
    /\ \E kind \in TickKinds :
          /\ last_tick' = kind
          /\ reverse' = (kind = "reverse_tick")
          /\ current_speed' = tick_speed(kind)
          /\ main_pc' = IF kind = "reverse_tick" THEN "lock_second" ELSE "pulse"
    /\ pulse_log' = <<>>
    /\ current_second' = None
    /\ UNCHANGED <<posVars, current_tick_pin, fast_forward, paused, thresholdVars,
                   hwVars, lock, tick_event, shutdown_event, timer_pc, time_string,
                   seen_pos, total_seconds_diff, countVars, rt_hist, clkVars,
                   pulse_result, sync_pc, ntp_time, syncs, handler_pc, gpio_released,
                   clock_position_lock, appVars, cadenceVars, mgrVars, web_log>>

\* reverse_tick: "with self.clock_position_lock" entered (piclock.py 262)
TickLockSecond ==
    /\ main_pc = "lock_second"
    /\ clock_position_lock = "free"
    /\ clock_position_lock' = "main"
    /\ main_pc' = "read_second"
    /\ UNCHANGED <<posVars, modeVars, thresholdVars, hwVars, lock, tick_event,
                   shutdown_event, timer_pc, cycleVars, countVars, rt_hist, clkVars,
                   pulse_result, sync_pc, ntp_time, syncs, handler_pc, gpio_released,
                   pulse_log, current_second, appVars, cadenceVars, mgrVars, web_log>>

\* the same block with the lock kept until the tick returns
TickReadSecond_keeping_lock ==
    /\ main_pc = "read_second"
    /\ current_second' = clock_second
    /\ main_pc' = "pulse"
    /\ UNCHANGED <<posVars, modeVars, thresholdVars, hwVars, lock, tick_event,
                   shutdown_event, timer_pc, cycleVars, countVars, rt_hist, clkVars,
                   pulse_result, sync_pc, ntp_time, syncs, handler_pc, gpio_released,
                   clock_position_lock, pulse_log, appVars, cadenceVars, mgrVars, web_log>>

\* reverse_tick: current_second read and the lock released (piclock.py 263)
TickReadSecond ==
    /\ main_pc = "read_second"
    /\ current_second' = clock_second
    /\ clock_position_lock' = "free"
    /\ main_pc' = "pulse"
    /\ UNCHANGED <<posVars, modeVars, thresholdVars, hwVars, lock, tick_event,
                   shutdown_event, timer_pc, cycleVars, countVars, rt_hist, clkVars,
                   pulse_result, sync_pc, ntp_time, syncs, handler_pc, gpio_released,
                   pulse_log, appVars, cadenceVars, mgrVars, web_log>>

\* the length and on_us of the tick's first pulse (piclock.py 237-238,
\* 250-251, 265-281)
first_pulse_ms(kind, second) ==
    IF kind = "forward_tick" THEN norm_tick_ms
    ELSE IF kind = "fast_forward_tick" THEN fwd_tick_ms
    ELSE reverse_profile(second)[1]

first_pulse_on_us(kind, second) ==
    IF kind = "forward_tick" THEN norm_tick_on_us
    ELSE IF kind = "fast_forward_tick" THEN fwd_tick_on_us
    ELSE reverse_profile(second)[4]

\* the first send_pwm_pulse call of the tick, on the current output
\* (piclock.py 238, 251, 281)
TickFirstPulse ==
    /\ main_pc = "pulse"
    /\ \E gpio_ok \in BOOLEAN :
          pulse_log' = Append(pulse_log,
                              <<current_tick_pin,
                                first_pulse_ms(last_tick, current_second),
                                first_pulse_on_us(last_tick, current_second),
                                send_pwm_pulse(hardware_available, gpio_ok)>>)
    /\ main_pc' = "switch"
    /\ UNCHANGED <<posVars, modeVars, thresholdVars, hwVars, lock, tick_event,
                   shutdown_event, timer_pc, cycleVars, countVars, rt_hist, clkVars,
                   pulse_result, sync_pc, ntp_time, syncs, handler_pc, gpio_released,
                   clock_position_lock, current_second, appVars, cadenceVars, mgrVars, web_log>>

\* reverse_tick's switch going on to the position update at once
TickSwitch_one_pulse ==
    /\ main_pc = "switch"
    /\ current_tick_pin' = IF last_tick = "reverse_tick"
                           THEN toggle_reverse(current_tick_pin)
                           ELSE toggle_forward(current_tick_pin)
    /\ main_pc' = "lock_position"
    /\ UNCHANGED <<posVars, fast_forward, paused, reverse, current_speed,
                   thresholdVars, hwVars, lock, tick_event, shutdown_event, timer_pc,
                   cycleVars, countVars, rt_hist, clkVars, ioVars>>

\* "Switch pins" (piclock.py 241, 254, 284)
TickSwitch ==
    /\ main_pc = "switch"
    /\ current_tick_pin' = IF last_tick = "reverse_tick"
                           THEN toggle_reverse(current_tick_pin)
                           ELSE toggle_forward(current_tick_pin)
    /\ main_pc' = IF last_tick = "reverse_tick" THEN "delay" ELSE "lock_position"
    /\ UNCHANGED <<posVars, fast_forward, paused, reverse, current_speed,
                   thresholdVars, hwVars, lock, tick_event, shutdown_event, timer_pc,
                   cycleVars, countVars, rt_hist, clkVars, ioVars>>

\* reverse_tick: time.sleep(t2_duration) (piclock.py 287)
TickDelay ==
    /\ main_pc = "delay"
    /\ pulse_log' = Append(pulse_log,
                           <<None, reverse_profile(current_second)[2], None, "slept">>)
    /\ main_pc' = "second_pulse"
    /\ UNCHANGED <<posVars, modeVars, thresholdVars, hwVars, lock, tick_event,
                   shutdown_event, timer_pc, cycleVars, countVars, rt_hist, clkVars,
                   pulse_result, sync_pc, ntp_time, syncs, handler_pc, gpio_released,
                   clock_position_lock, current_second, appVars, cadenceVars, mgrVars, web_log>>

\* reverse_tick: the second send_pwm_pulse call (piclock.py 290)
TickSecondPulse ==
    /\ main_pc = "second_pulse"
    /\ \E gpio_ok \in BOOLEAN :
          pulse_log' = Append(pulse_log,
                              <<current_tick_pin,
                                reverse_profile(current_second)[3],
                                reverse_profile(current_second)[4],
                                send_pwm_pulse(hardware_available, gpio_ok)>>)
    /\ main_pc' = "lock_position"
    /\ UNCHANGED <<posVars, modeVars, thresholdVars, hwVars, lock, tick_event,
                   shutdown_event, timer_pc, cycleVars, countVars, rt_hist, clkVars,
                   pulse_result, sync_pc, ntp_time, syncs, handler_pc, gpio_released,
                   clock_position_lock, current_second, appVars, cadenceVars, mgrVars, web_log>>

\* update_clock_position: "with self.clock_position_lock" entered
\* (piclock.py 336)
TickLockPosition ==
    /\ main_pc = "lock_position"
    /\ clock_position_lock = "free"
    /\ clock_position_lock' = "main"
    /\ main_pc' = "update"
    /\ UNCHANGED <<posVars, modeVars, thresholdVars, hwVars, lock, tick_event,
                   shutdown_event, timer_pc, cycleVars, countVars, rt_hist, clkVars,
                   pulse_result, sync_pc, ntp_time, syncs, handler_pc, gpio_released,
                   pulse_log, current_second, appVars, cadenceVars, mgrVars, web_log>>

\* update_clock_position: the position moved one second, the lock released,
\* and the tick returns (piclock.py 337-354)
TickUpdatePosition ==
    /\ main_pc = "update"
    /\ LET new == update_clock_position(clock_hour, clock_minute, clock_second,
                                        last_tick = "reverse_tick")
       IN  /\ clock_hour' = new[1]
           /\ clock_minute' = new[2]
           /\ clock_second' = new[3]
    /\ clock_position_lock' = "free"
    /\ ticks' = ticks + 1
    /\ main_pc' = "idle"
    /\ UNCHANGED <<modeVars, thresholdVars, hwVars, lock, tick_event,
                   shutdown_event, timer_pc, cycleVars, signals, elapsed, subsec,
                   rt_hist, clkVars, pulse_result, sync_pc, ntp_time, syncs,
                   handler_pc, gpio_released, pulse_log, current_second, appVars,
                   cadenceVars, mgrVars, web_log>>

\* get_clock_time, a web request: "with self.clock_position_lock" entered
\* (piclock.py 519-521)
WebLockPosition ==
    /\ clock_position_lock = "free"
    /\ clock_position_lock' = "web"
    /\ UNCHANGED <<posVars, modeVars, thresholdVars, hwVars, threadVars, cycleVars,
                   countVars, rt_hist, clkVars, pulse_result, sync_pc, ntp_time,
                   syncs, handler_pc, gpio_released, pulse_log, current_second,
                   appVars, cadenceVars, mgrVars, web_log>>

\* get_clock_time: the position returned and the lock released
\* (piclock.py 522-526)
WebReadPosition ==
    /\ clock_position_lock = "web"
    /\ clock_position_lock' = "free"
    /\ UNCHANGED <<posVars, modeVars, thresholdVars, hwVars, threadVars, cycleVars,
                   countVars, rt_hist, clkVars, pulse_result, sync_pc, ntp_time,
                   syncs, handler_pc, gpio_released, pulse_log, current_second,
                   appVars, cadenceVars, mgrVars, web_log>>

NextTick ==
    \/ TickEnter
    \/ TickLockSecond
    \/ TickReadSecond
    \/ TickFirstPulse
    \/ TickSwitch
    \/ TickDelay
    \/ TickSecondPulse
    \/ TickLockPosition
    \/ TickUpdatePosition
    \/ WebLockPosition
    \/ WebReadPosition

SpecTick == InitTick /\ [][NextTick]_vars

\* C23: when the position moves, a reverse tick has requested exactly the
\* short pulse on the output that was current at its start, then the delay,
\* then the longer pulse on the other output; a forward or fast-forward tick
\* exactly one pulse, on the output that was current at its start.
C23_PulsesBeforePosition ==
    [][posVars' # posVars
         => IF last_tick = "reverse_tick"
            THEN /\ Len(pulse_log) = 3
                 /\ pulse_log[1][1] = toggle_forward(current_tick_pin)
                 /\ pulse_log[1][4] # "slept"
                 /\ pulse_log[2][4] = "slept"
                 /\ pulse_log[3][1] = current_tick_pin
                 /\ pulse_log[3][4] # "slept"
                 /\ pulse_log[1][2] < pulse_log[3][2]
            ELSE /\ Len(pulse_log) = 1
                 /\ pulse_log[1][1] = toggle_forward(current_tick_pin)
                 /\ pulse_log[1][4] # "slept"]_vars

C23_Witness ==
    /\ main_pc = "idle"
    /\ last_tick = "reverse_tick"
    /\ posVars = <<11, 59, 59>>
    /\ current_tick_pin = tick_pin2
    /\ pulse_log = <<<<tick_pin1, 10, 82, "emitted">>, <<None, 7, None, "slept">>,
                     <<tick_pin2, 28, 82, "emitted">>>>

\* C24: a reverse tick uses the region-A parameters for both pulses exactly
\* when the second hand, as it stands until the tick's position update, is
\* in rev_ticka_lo <= second < rev_ticka_hi, and the region-B parameters
\* otherwise.
C24_RegionBySecondBeforeTick ==
    [][posVars' # posVars /\ last_tick = "reverse_tick"
         => LET inA == rev_ticka_lo <= clock_second /\ clock_second < rev_ticka_hi
                profile == IF inA
                           THEN <<rev_ticka_t1_ms, rev_ticka_t2_ms,
                                  rev_ticka_t3_ms, rev_ticka_on_us>>
                           ELSE <<rev_tickb_t1_ms, rev_tickb_t2_ms,
                                  rev_tickb_t3_ms, rev_tickb_on_us>>
            IN  /\ current_second = clock_second
                /\ pulse_log[1][2] = profile[1] /\ pulse_log[1][3] = profile[4]
                /\ pulse_log[2][2] = profile[2]
                /\ pulse_log[3][2] = profile[3] /\ pulse_log[3][3] = profile[4]]_vars

C24_Witness ==
    /\ main_pc = "idle"
    /\ last_tick = "reverse_tick"
    /\ \/ clock_second = 54 /\ current_second = 55
          /\ pulse_log[1][3] = rev_tickb_on_us /\ pulse_log[3][3] = rev_tickb_on_us
       \/ clock_second = 34 /\ current_second = 35
          /\ pulse_log[1][3] = rev_ticka_on_us /\ pulse_log[3][3] = rev_ticka_on_us

\* C28: the ticking thread does not hold clock_position_lock while a pulse
\* is requested or the inter-pulse delay elapses, so get_clock_time can take
\* the lock then.
C28_NoPositionLockWhilePulsing ==
    main_pc \in {"pulse", "switch", "delay", "second_pulse"}
        => clock_position_lock # "main"

C28_Witness ==
    /\ main_pc = "second_pulse"
    /\ last_tick = "reverse_tick"
    /\ Len(pulse_log) = 2
    /\ clock_position_lock = "web"

(***************************************************************************)
(* SpecStatus: whole synchronization cycles one after the other, the RTC   *)
(* reset by the resync loop in between, with pause and resume requests and *)
(* the status the web API reports.                                         *)
(***************************************************************************)
MaxStatusCycles == 3

\* GET /api/clock_status (piclock.py 645-655)
get_clock_status(is_paused, ff, rev) ==
    IF is_paused THEN "Paused"
    ELSE IF ff THEN "Fast Forward"
    ELSE IF rev THEN "Reverse"
    ELSE "Ticking"

\* hand positions the cycles start from
StatusStarts == {<<12, 0, 0>>, <<3, 30, 59>>}

\* times the resync loop sets the RTC to: at, ahead of and behind the hands
StatusNtpAnswers == {<<0, 0, 1>>, <<0, 5, 0>>, <<23, 55, 0>>, <<3, 31, 0>>}

InitStatus ==
    /\ \E start \in StatusStarts :
          /\ clock_hour = start[1]
          /\ clock_minute = start[2]
          /\ clock_second = start[3]
    /\ hardware_available = TRUE
    /\ rtc \in StatusNtpAnswers
    /\ fram = <<>>
    /\ rt_hist = <<>>
    /\ ConstructedMode /\ DefaultThresholds
    /\ IdleThreads /\ IdleCycle /\ ZeroCounts /\ UnusedClock /\ IdleServices

\* run, the body of one main-loop iteration (piclock.py 787-791): a cycle
\* only if not paused
StatusCycle ==
    /\ ~paused
    /\ ticks < MaxStatusCycles
    /\ SynchronizeClock
    /\ ticks' = ticks + 1
    /\ UNCHANGED <<thresholdVars, hwVars, threadVars, signals, elapsed, subsec,
                   rt_hist, clkVars, ioVars>>

\* sync_rtc_time_with_ntp_time, called by the resync loop (piclock.py 176-184)
StatusResync ==
    /\ \E answer \in StatusNtpAnswers :
          rtc' = sync_rtc_time_with_ntp_time(hardware_available, rtc, answer)
    /\ rtc' # rtc
    /\ UNCHANGED <<posVars, modeVars, thresholdVars, hardware_available, fram,
                   threadVars, cycleVars, countVars, rt_hist, clkVars, ioVars>>

NextStatus == StatusCycle \/ StatusResync \/ pause_clock \/ resume_clock

SpecStatus == InitStatus /\ [][NextStatus]_vars

\* C25: after a completed cycle, while the clock is not paused, the status
\* query answers "Ticking" after a normal tick, "Fast Forward" after a
\* fast-forward tick and "Reverse" after a reverse tick; between cycles
\* fast_forward and reverse are never both true.
C25_StatusReflectsLastTick ==
    /\ ~(fast_forward /\ reverse)
    /\ (last_tick # "none" /\ ~paused)
          => get_clock_status(paused, fast_forward, reverse)
               = (IF last_tick = "forward_tick" THEN "Ticking"
                  ELSE IF last_tick = "fast_forward_tick" THEN "Fast Forward"
                  ELSE "Reverse")

C25_Witness ==
    /\ ticks = 3
    /\ ~paused
    /\ last_tick = "forward_tick"
    /\ current_speed = 1
    /\ get_clock_status(paused, fast_forward, reverse) = "Ticking"
    /\ rtc = <<0, 0, 1>>
    /\ posVars = <<12, 0, 1>>

\* C26: a step that pauses or resumes, and every step taken while paused,
\* leaves the hand position, fast_forward, reverse and the current output
\* unchanged, so the status after a resume is the status before the pause.
C26_PauseChangesOnlyPaused ==
    [][(paused \/ paused')
         => /\ UNCHANGED <<posVars, fast_forward, reverse, current_tick_pin>>
            /\ get_clock_status(FALSE, fast_forward', reverse')
                 = get_clock_status(FALSE, fast_forward, reverse)]_vars

C26_Witness ==
    /\ paused
    /\ fast_forward
    /\ last_tick = "fast_forward_tick"
    /\ get_clock_status(paused, fast_forward, reverse) = "Paused"
    /\ get_clock_status(FALSE, fast_forward, reverse) = "Fast Forward"

(***************************************************************************)
(* SpecCadence: timer_callback iteration by iteration, the count masks     *)
(* changed through the pulsing configuration and the clock paused and      *)
(* resumed meanwhile.  The mode flags are read without a lock while the    *)
(* main loop writes them, so every combination of fast_forward and reverse *)
(* is met, both set included (synchronize_clock sets fast_forward before   *)
(* the tick clears reverse).                                               *)
(***************************************************************************)
MaxCadenceSignals == 2

\* values POSTed as fast_forward_count_mask and reverse_count_mask
CountMaskInputs == {0, 1, 3, 5, 7}

InitCadence ==
    /\ \E start \in StatusStarts :
          /\ clock_hour = start[1]
          /\ clock_minute = start[2]
          /\ clock_second = start[3]
    /\ current_tick_pin = tick_pin1
    /\ fast_forward \in BOOLEAN
    /\ reverse \in BOOLEAN
    /\ paused = FALSE
    /\ current_speed = 1
    /\ hardware_available = TRUE
    /\ rtc = <<0, 0, 0>>
    /\ fram = <<>>
    /\ rt_hist = <<>>
    /\ lock = "free"
    /\ tick_event = FALSE
    /\ shutdown_event = FALSE
    /\ main_pc = "wait"
    /\ timer_pc = "sleep"
    /\ DefaultThresholds /\ IdleCycle /\ ZeroCounts /\ UnusedClock /\ IdleServices

\* timer_callback: the interval computed and slept (piclock.py 383-409)
CadenceSleep ==
    /\ timer_pc = "sleep"
    /\ ~shutdown_event
    /\ signals < MaxCadenceSignals
    /\ interval' = timer_callback_interval(fast_forward, reverse,
                                           count_mask[1], count_mask[2])
    /\ timer_pc' = "signal"
    /\ UNCHANGED <<posVars, modeVars, thresholdVars, hwVars, lock, tick_event,
                   shutdown_event, main_pc, cycleVars, countVars, rt_hist, clkVars,
                   pulse_result, sync_pc, ntp_time, syncs, handler_pc, gpio_released,
                   tickVars, appVars, count_mask,
                   mgrVars, web_log>>

\* timer_callback: under the lock, the tick-due flag set if not paused
\* (piclock.py 412-414)
CadenceSignal ==
    /\ timer_pc = "signal"
    /\ lock = "free"
    /\ tick_event' = IF paused THEN tick_event ELSE TRUE
    /\ signals' = signals + 1
    /\ timer_pc' = "sleep"
    /\ UNCHANGED <<posVars, modeVars, thresholdVars, hwVars, lock, shutdown_event,
                   main_pc, cycleVars, ticks, elapsed, subsec, rt_hist, clkVars,
                   ioVars>>

\* run: the flag cleared under the lock (piclock.py 787-788)
CadenceClear ==
    /\ main_pc = "wait"
    /\ tick_event
    /\ tick_event' = FALSE
    /\ UNCHANGED <<posVars, modeVars, thresholdVars, hwVars, lock, shutdown_event,
                   main_pc, timer_pc, cycleVars, countVars, rt_hist, clkVars, ioVars>>

\* POST /api/pulsing_config with the two count masks (piclock.py 705-706,
\* 734-735)
set_pulsing_config ==
    /\ \E fwd_mask \in CountMaskInputs, rev_mask \in CountMaskInputs :
          count_mask' = <<fwd_mask, rev_mask>>
    /\ count_mask' # count_mask
    /\ UNCHANGED <<posVars, modeVars, thresholdVars, hwVars, threadVars, cycleVars,
                   countVars, rt_hist, clkVars, pulse_result, sync_pc, ntp_time,
                   syncs, handler_pc, gpio_released, tickVars, appVars, interval,
                   mgrVars, web_log>>

NextCadence ==
    \/ CadenceSleep
    \/ CadenceSignal
    \/ CadenceClear
    \/ set_pulsing_config
    \/ pause_clock
    \/ resume_clock

SpecCadence == InitCadence /\ [][NextCadence]_vars

\* ticks per second the count masks 0, 1, 3, 7 stand for
CountMaskRate(mask) ==
    IF mask = 0 THEN 8 ELSE IF mask = 1 THEN 4 ELSE IF mask = 3 THEN 2 ELSE 1

\* C27: the cadence loop sleeps one second when neither fast_forward nor
\* reverse is set; with fast_forward set 1/8, 1/4, 1/2 or 1 second for
\* fwd_count_mask 0, 1, 3, 7; otherwise with reverse set the same for
\* rev_count_mask; and after the interval the tick-due flag becomes set
\* exactly when paused is false.
C27_IntervalByMode ==
    [][/\ (timer_pc = "sleep" /\ timer_pc' = "signal")
            => /\ (~fast_forward /\ ~reverse) => interval' = 8
               /\ (fast_forward /\ count_mask[1] \in {0, 1, 3, 7})
                     => interval' * CountMaskRate(count_mask[1]) = 8
               /\ (~fast_forward /\ reverse /\ count_mask[2] \in {0, 1, 3, 7})
                     => interval' * CountMaskRate(count_mask[2]) = 8
       /\ (timer_pc = "signal" /\ timer_pc' = "sleep")
            => tick_event' = (tick_event \/ ~paused)
       /\ (~tick_event /\ tick_event') => ~paused]_vars

C27_Witness ==
    /\ timer_pc = "signal"
    /\ fast_forward /\ reverse
    /\ count_mask = <<0, 7>>
    /\ interval = 1
    /\ paused
    /\ ~tick_event
    /\ signals = 1

(***************************************************************************)
(* SpecPersist: synchronization cycles each followed by write_time_to_fram, *)
(* which the FRAM takes or refuses, the RTC reset by the resync loop in    *)
(* between, and the program started again from the record.                 *)
(***************************************************************************)
MaxPersistCycles == 2

InitPersist ==
    /\ \E start \in StatusStarts :
          /\ clock_hour = start[1]
          /\ clock_minute = start[2]
          /\ clock_second = start[3]
          /\ fram = format_time_string(start[1], start[2], start[3])
          /\ time_string = format_time_string(start[1], start[2], start[3])
    /\ hardware_available = TRUE
    /\ rtc \in StatusNtpAnswers
    /\ rt_hist = <<>>
    /\ lock = "free"
    /\ tick_event = FALSE
    /\ shutdown_event = FALSE
    /\ main_pc = "wait"
    /\ timer_pc = "sleep"
    /\ seen_pos = <<None, None, None>>
    /\ total_seconds_diff = None
    /\ last_tick = "none"
    /\ ConstructedMode /\ DefaultThresholds /\ ZeroCounts /\ UnusedClock /\ IdleServices

\* run, one main-loop iteration up to the persistence call (piclock.py
\* 787-791): the lock taken, the cycle performed
PersistCycle ==
    /\ main_pc = "wait"
    /\ lock = "free"
    /\ ~paused
    /\ ticks < MaxPersistCycles
    /\ SynchronizeClock
    /\ ticks' = ticks + 1
    /\ lock' = "main"
    /\ main_pc' = "persist"
    /\ UNCHANGED <<thresholdVars, hwVars, tick_event, shutdown_event, timer_pc,
                   signals, elapsed, subsec, rt_hist, clkVars, ioVars>>

\* the program started again between two cycles: __init__ (piclock.py
\* 69-79) and the load of the record in run (754-760)
PersistRestart ==
    /\ main_pc = "wait"
    /\ LET loaded == read_time_from_fram(hardware_available, fram)
       IN  /\ time_string' = loaded
           /\ IF loaded # <<>>
              THEN /\ clock_hour' = seed_position(loaded)[1]
                   /\ clock_minute' = seed_position(loaded)[2]
                   /\ clock_second' = seed_position(loaded)[3]
              ELSE /\ clock_hour' = None
                   /\ clock_minute' = None
                   /\ clock_second' = None
    /\ current_tick_pin' = tick_pin1
    /\ fast_forward' = FALSE
    /\ paused' = FALSE
    /\ reverse' = FALSE
    /\ current_speed' = 1
    /\ seen_pos' = <<None, None, None>>
    /\ total_seconds_diff' = None
    /\ last_tick' = "none"
    /\ UNCHANGED <<thresholdVars, hwVars, threadVars, countVars, rt_hist, clkVars,
                   ioVars>>

NextPersist == PersistCycle \/ MainPersist \/ StatusResync \/ PersistRestart

SpecPersist == InitPersist /\ [][NextPersist]_vars

\* C29: every cycle is followed by a write attempt; a write that changes
\* the record stores the position the cycle's one-second advance led to,
\* in a form the startup load seeds that same position from; a write
\* attempt, failed or not, leaves the position and the mode unchanged; and
\* a restart resumes from the position of the record.
C29_RecordFollowsAdvance ==
    [][/\ ticks' = ticks + 1 => main_pc' = "persist"
       /\ main_pc = "persist"
            => /\ UNCHANGED <<posVars, modeVars>>
               /\ fram' # fram
                    => /\ read_time_from_fram(hardware_available, fram') = fram'
                       /\ seed_position(fram') = posVars
                       /\ HandSeconds(posVars)
                            = (HandSeconds(seen_pos)
                                 + (IF last_tick = "reverse_tick" THEN -1 ELSE 1))
                              % 43200
       /\ (main_pc = "wait" /\ posVars' # posVars /\ ticks' = ticks)
            => posVars' = seed_position(fram)]_vars

C29_Witness ==
    /\ main_pc = "wait"
    /\ ticks = 1
    /\ last_tick = "none"
    /\ time_string = fram
    /\ fram = format_time_string(12, 0, 1)
    /\ posVars = <<12, 0, 1>>

(***************************************************************************)
(* SpecApp: the modular application (app.py with functions/clock.py): the  *)
(* timer thread, the main loop and the pause and resume requests of WebUI. *)
(* The RTC and the FRAM answer; the main loop's cycle is taken whole.      *)
(***************************************************************************)
MaxAppSignals == 3
MaxAppCycles == 3

\* Clock.calculate_time_difference (functions/clock.py 92-114)
clk_calculate_time_difference(h_pos, m_pos, s_pos, hour, minute, second) ==
    LET clock_hour_24 == IF h_pos = 12
                         THEN (IF hour < 12 THEN 0 ELSE 12)
                         ELSE (IF hour >= 12 THEN h_pos + 12 ELSE h_pos)
        diff == (hour * 3600 + minute * 60 + second)
                  - (clock_hour_24 * 3600 + m_pos * 60 + s_pos)
    IN  IF diff > 21600 THEN diff - 43200
        ELSE IF diff < -21600 THEN diff + 43200
        ELSE diff

\* hand positions the modular clock is constructed with (app.py 128-153)
AppStarts == {<<12, 0, 0>>, <<3, 30, 59>>, <<11, 59, 59>>}

InitApp ==
    /\ \E start \in AppStarts :
          /\ hour_hand_position = start[1]
          /\ minute_hand_position = start[2]
          /\ second_hand_position = start[3]
    /\ clk_reverse = FALSE
    /\ clk_current_tick_pin = tick_pin1
    /\ clk_paused = FALSE
    /\ clk_fast_forward = FALSE
    /\ app_tick_event = FALSE
    /\ app_main_pc = "wait"
    /\ clock_hour = None /\ clock_minute = None /\ clock_second = None
    /\ hardware_available = TRUE
    /\ rtc \in StatusNtpAnswers
    /\ fram = <<>>
    /\ rt_hist = <<>>
    /\ pulse_result = <<>>
    /\ sync_pc = "idle"
    /\ ntp_time = <<>>
    /\ syncs = 0
    /\ handler_pc = "none"
    /\ gpio_released = FALSE
    /\ ConstructedMode /\ DefaultThresholds /\ IdleThreads /\ IdleCycle /\ ZeroCounts
    /\ IdleTick /\ IdleCadence /\ IdleMgr /\ IdleWeb

\* timer_function, one iteration (app.py 58-68): the sleep, then the tick
\* event set if the clock is not paused
AppTimer ==
    /\ signals < MaxAppSignals
    /\ app_tick_event' = IF clk_paused THEN app_tick_event ELSE TRUE
    /\ signals' = signals + 1
    /\ UNCHANGED <<posVars, modeVars, thresholdVars, hwVars, threadVars, cycleVars,
                   ticks, elapsed, subsec, rt_hist, clkVars, pulse_result, sync_pc,
                   ntp_time, syncs, handler_pc, gpio_released, tickVars,
                   clk_paused, clk_fast_forward, app_main_pc, cadenceVars, mgrVars, web_log>>

\* main, one iteration of the loop with the tick event set (app.py 181-209):
\* the event cleared, the RTC read, Clock.synchronize_clock
\* (functions/clock.py 55-90) with its tick, the position written to FRAM
AppMainCycle ==
    /\ app_main_pc = "wait"
    /\ app_tick_event
    /\ ticks < MaxAppCycles
    /\ app_tick_event' = FALSE
    /\ LET diff == clk_calculate_time_difference(hour_hand_position,
                      minute_hand_position, second_hand_position,
                      rtc[1], rtc[2], rtc[3])
           rev == ~(Abs(diff) <= 1) /\ ~(diff > 1)
           new == clk_update_clock_position(hour_hand_position,
                      minute_hand_position, second_hand_position, rev)
       IN  /\ clk_fast_forward' = (~(Abs(diff) <= 1) /\ diff > 1)
           /\ clk_reverse' = rev
           /\ clk_current_tick_pin' = IF rev THEN toggle_reverse(clk_current_tick_pin)
                                             ELSE toggle_forward(clk_current_tick_pin)
           /\ hour_hand_position' = new[1]
           /\ minute_hand_position' = new[2]
           /\ second_hand_position' = new[3]
           /\ fram' = format_time_string(new[1], new[2], new[3])
    /\ ticks' = ticks + 1
    /\ UNCHANGED <<posVars, modeVars, thresholdVars, hardware_available, rtc,
                   threadVars, cycleVars, signals, elapsed, subsec, rt_hist,
                   pulse_result, sync_pc, ntp_time, syncs, handler_pc, gpio_released,
                   tickVars, clk_paused, app_main_pc, cadenceVars, mgrVars, web_log>>

\* WebUI.pause_clock (functions/web.py 243-246)
web_pause_clock ==
    /\ ~clk_paused
    /\ clk_paused' = TRUE
    /\ UNCHANGED <<posVars, modeVars, thresholdVars, hwVars, threadVars, cycleVars,
                   countVars, rt_hist, clkVars, pulse_result, sync_pc, ntp_time,
                   syncs, handler_pc, gpio_released, tickVars, clk_fast_forward,
                   app_tick_event, app_main_pc, cadenceVars, mgrVars, web_log>>

\* WebUI.resume_clock (functions/web.py 248-251)
web_resume_clock ==
    /\ clk_paused
    /\ clk_paused' = FALSE
    /\ UNCHANGED <<posVars, modeVars, thresholdVars, hwVars, threadVars, cycleVars,
                   countVars, rt_hist, clkVars, pulse_result, sync_pc, ntp_time,
                   syncs, handler_pc, gpio_released, tickVars, clk_fast_forward,
                   app_tick_event, app_main_pc, cadenceVars, mgrVars, web_log>>

NextApp == AppTimer \/ AppMainCycle \/ web_pause_clock \/ web_resume_clock

SpecApp == InitApp /\ [][NextApp]_vars

\* C30: in the modular application no step taken while clock.paused is true
\* performs a cycle: the hand position stays and no tick is made.
C30_AppPausedFreezesPosition ==
    [][clk_paused
         => /\ UNCHANGED <<hour_hand_position, minute_hand_position,
                           second_hand_position>>
            /\ ticks' = ticks]_vars

C30_PausedCycleWitness ==
    /\ clk_paused
    /\ signals = 1
    /\ ticks = 1
    /\ ~app_tick_event
    /\ hour_hand_position = 12 /\ minute_hand_position = 0
    /\ second_hand_position = 1

(***************************************************************************)
(* SpecAppStart: the startup of the modular application (app.py 127-153)   *)
(* over the records the FRAM may hold.                                     *)
(***************************************************************************)
RECURSIVE split_colon(_)
\* str.split(":"): the fields between the colons
split_colon(str) ==
    IF \A i \in 1..Len(str) : str[i] # ":"
    THEN <<str>>
    ELSE LET k == CHOOSE i \in 1..Len(str) :
                     str[i] = ":" /\ \A j \in 1..(i - 1) : str[j] # ":"
         IN  <<SubSeq(str, 1, k - 1)>> \o split_colon(SubSeq(str, k + 1, Len(str)))

RECURSIVE digits_value(_)
\* the number a non-empty string of decimal digits stands for
digits_value(str) ==
    IF Len(str) = 0 THEN 0
    ELSE 10 * digits_value(SubSeq(str, 1, Len(str) - 1)) + DigitValue(str[Len(str)])

\* Python's int() of a string: blanks stripped on both sides, an optional
\* sign, then decimal digits; None stands for ValueError
python_int_str(str) ==
    LET inner == {i \in 1..Len(str) : str[i] # " "}
    IN  IF inner = {} THEN None
        ELSE LET lo == CHOOSE i \in inner : \A j \in inner : i <= j
                 hi == CHOOSE i \in inner : \A j \in inner : j <= i
                 signed == str[lo] \in {"+", "-"}
                 body == SubSeq(str, IF signed THEN lo + 1 ELSE lo, hi)
             IN  IF Len(body) = 0 \/ \E i \in 1..Len(body) : ~IsDigit(body[i])
                 THEN None
                 ELSE IF str[lo] = "-" THEN -digits_value(body)
                 ELSE digits_value(body)

\* FRAM.read_time_from_fram (functions/fram.py 23-31): the eight bytes as
\* they are, or <<>> for None when the read raises
fram_read_time_from_fram(readable, rec) ==
    IF readable THEN rec ELSE <<>>

\* does app.py's unpacking of map(int, time_string.split(":")) raise
\* (app.py 131)
app_parse_raises(str) ==
    LET fields == split_colon(str)
    IN  \/ Len(fields) # 3
        \/ \E i \in 1..3 : python_int_str(fields[i]) = None

\* the hour, minute and second app.py seeds the Clock with (app.py 129-135)
app_seed_position(str) ==
    IF str = <<>> THEN <<12, 0, 0>>
    ELSE LET fields == split_colon(str)
             hour == python_int_str(fields[1])
         IN  <<IF hour % 12 = 0 THEN 12 ELSE hour % 12,
               python_int_str(fields[2]), python_int_str(fields[3])>>

\* the eight bytes the FRAM may hold
AppRecords == {rec \in SampleRecords : Len(rec) = 8} \cup {BlankRecord}

InitAppStart ==
    /\ fram \in AppRecords
    /\ hour_hand_position = None
    /\ minute_hand_position = None
    /\ second_hand_position = None
    /\ clk_reverse = FALSE
    /\ clk_current_tick_pin = tick_pin1
    /\ clk_paused = FALSE
    /\ clk_fast_forward = FALSE
    /\ app_tick_event = FALSE
    /\ app_main_pc = "start"
    /\ clock_hour = None /\ clock_minute = None /\ clock_second = None
    /\ hardware_available = TRUE
    /\ rtc = <<0, 0, 0>>
    /\ rt_hist = <<>>
    /\ pulse_result = <<>>
    /\ sync_pc = "idle"
    /\ ntp_time = <<>>
    /\ syncs = 0
    /\ handler_pc = "none"
    /\ gpio_released = FALSE
    /\ ConstructedMode /\ DefaultThresholds /\ IdleThreads /\ IdleCycle /\ ZeroCounts
    /\ IdleTick /\ IdleCadence /\ IdleMgr /\ IdleWeb

\* main up to the construction of the Clock (app.py 127-153): the record
\* read and parsed, the RTC set from NTP when the server answers; a
\* ValueError of the parsing is not caught and ends main
AppStartup ==
    /\ app_main_pc = "start"
    /\ \E readable \in BOOLEAN :
          LET loaded == fram_read_time_from_fram(readable, fram)
          IN  /\ time_string' = loaded
              /\ IF loaded # <<>> /\ app_parse_raises(loaded)
                 THEN /\ app_main_pc' = "crashed"
                      /\ UNCHANGED <<hour_hand_position, minute_hand_position,
                                     second_hand_position, rtc>>
                 ELSE /\ app_main_pc' = "wait"
                      /\ hour_hand_position' = app_seed_position(loaded)[1]
                      /\ minute_hand_position' = app_seed_position(loaded)[2]
                      /\ second_hand_position' = app_seed_position(loaded)[3]
                      /\ \E answer \in NtpAnswers :
                            rtc' = IF answer = <<>> THEN rtc ELSE answer
    /\ UNCHANGED <<posVars, modeVars, thresholdVars, hardware_available, fram,
                   threadVars, seen_pos, total_seconds_diff, last_tick, countVars,
                   rt_hist, clk_reverse, clk_current_tick_pin, pulse_result, sync_pc,
                   ntp_time, syncs, handler_pc, gpio_released, tickVars, clk_paused,
                   clk_fast_forward, app_tick_event, cadenceVars, mgrVars, web_log>>

NextAppStart == AppStartup

SpecAppStart == InitAppStart /\ [][NextAppStart]_vars

\* C31: the startup of the modular application never ends in an exception
\* because of the record, and seeds the Clock with 12:00:00 when the record
\* is absent or is not 'HH:MM:SS' of digits with hour in 1..12 and minute
\* and second in 0..59.
C31_AppDefaultOnBadRecord ==
    app_main_pc # "start"
        => /\ app_main_pc # "crashed"
           /\ ~(/\ time_string # <<>>
                /\ ExactShape(time_string)
                /\ ValidPosition(ShapeValue(time_string)[1],
                                 ShapeValue(time_string)[2],
                                 ShapeValue(time_string)[3]))
                 => <<hour_hand_position, minute_hand_position,
                      second_hand_position>> = <<12, 0, 0>>

\* the fresh FRAM of eight NUL bytes has ended the startup
C31_BlankRecordWitness ==
    /\ app_main_pc = "crashed"
    /\ fram = BlankRecord
    /\ time_string = BlankRecord
    /\ hour_hand_position = None

\* a record with fields out of range has seeded the Clock
C31_OutOfRangeWitness ==
    /\ app_main_pc = "wait"
    /\ time_string = <<"1", "3", ":", "6", "0", ":", "9", "9">>
    /\ hour_hand_position = 1
    /\ minute_hand_position = 60
    /\ second_hand_position = 99

(***************************************************************************)
(* SpecThreads: the modular application with its ThreadManager: the three  *)
(* registered threads started, running, ending on the stop event or on an  *)
(* exception, and stop_all called by the signal handler or by main's       *)
(* finally block.  The timer thread waits on the stop event and ends well  *)
(* inside the two seconds of a join; the syncing thread sleeps five        *)
(* seconds at a time and the web server does not look at the stop event.   *)
(***************************************************************************)
\* ThreadManager.start_all (functions/thread_manager.py 57-61)
start_all ==
    /\ stop_pc = "idle"
    /\ \A t \in ThreadNames : threads[t] = "registered"
    /\ threads' = [t \in ThreadNames |-> "running"]
    /\ UNCHANGED <<posVars, modeVars, thresholdVars, hwVars, threadVars, cycleVars,
                   countVars, rt_hist, clkVars, pulse_result, sync_pc, ntp_time,
                   syncs, handler_pc, gpio_released, tickVars, appVars, cadenceVars, web_log,
                   stop_event, stop_pc>>

\* timer_function, one iteration while the stop event is clear
\* (app.py 58-68)
ThreadsTimer ==
    /\ threads["timer"] = "running"
    /\ ~stop_event
    /\ AppTimer

\* main, one iteration of the loop while is_stopping() is false
\* (app.py 181-209)
ThreadsMainCycle ==
    /\ \A t \in ThreadNames : threads[t] # "registered"
    /\ ~stop_event
    /\ AppMainCycle

\* timer_function and syncing_function return once they see the stop event
\* (app.py 58-63, 71, 83-85); web_server_function stays in app.run
\* (app.py 89-101)
ThreadSeesStop ==
    /\ stop_event
    /\ \E t \in {"timer", "syncing"} :
          /\ threads[t] = "running"
          /\ threads' = [threads EXCEPT ![t] = "finished"]
    /\ UNCHANGED <<posVars, modeVars, thresholdVars, hwVars, threadVars, cycleVars,
                   countVars, rt_hist, clkVars, pulse_result, sync_pc, ntp_time,
                   syncs, handler_pc, gpio_released, tickVars, appVars, cadenceVars, web_log,
                   stop_event, stop_pc>>

\* a wrapper that stops the application when its target raises
ThreadRaises_stopping ==
    /\ \E t \in ThreadNames :
          /\ threads[t] = "running"
          /\ threads' = [threads EXCEPT ![t] = "failed"]
    /\ stop_event' = TRUE
    /\ UNCHANGED <<posVars, modeVars, thresholdVars, hwVars, threadVars, cycleVars,
                   countVars, rt_hist, clkVars, pulse_result, sync_pc, ntp_time,
                   syncs, handler_pc, gpio_released, tickVars, appVars, cadenceVars, web_log,
                   stop_pc>>

\* ThreadManager._thread_wrapper (functions/thread_manager.py 42-55): the
\* target raises, the exception is logged and the thread ends
ThreadRaises ==
    /\ \E t \in ThreadNames :
          /\ threads[t] = "running"
          /\ threads' = [threads EXCEPT ![t] = "failed"]
    /\ UNCHANGED <<posVars, modeVars, thresholdVars, hwVars, threadVars, cycleVars,
                   countVars, rt_hist, clkVars, pulse_result, sync_pc, ntp_time,
                   syncs, handler_pc, gpio_released, tickVars, appVars, cadenceVars, web_log,
                   stop_event, stop_pc>>

\* ThreadManager.stop_all, its first statement (functions/thread_manager.py
\* 65), called by signal_handler (app.py 113-114) or by main's finally
\* block (app.py 218-220)
stop_all_set ==
    /\ stop_pc = "idle"
    /\ \A t \in ThreadNames : threads[t] # "registered"
    /\ stop_event' = TRUE
    /\ stop_pc' = "join"
    /\ UNCHANGED <<posVars, modeVars, thresholdVars, hwVars, threadVars, cycleVars,
                   countVars, rt_hist, clkVars, pulse_result, sync_pc, ntp_time,
                   syncs, handler_pc, gpio_released, tickVars, appVars, cadenceVars, web_log,
                   threads>>

\* ThreadManager.stop_all, the joins (functions/thread_manager.py 66-69):
\* each join returns when its thread has ended or after two seconds; the
\* caller then leaves the main loop for good
stop_all_join ==
    /\ stop_pc = "join"
    /\ threads["timer"] # "running"
    /\ stop_pc' = "returned"
    /\ app_main_pc' = "exited"
    /\ UNCHANGED <<posVars, modeVars, thresholdVars, hwVars, threadVars, cycleVars,
                   countVars, rt_hist, clkVars, pulse_result, sync_pc, ntp_time,
                   syncs, handler_pc, gpio_released, tickVars, clk_paused,
                   clk_fast_forward, app_tick_event, cadenceVars, web_log, stop_event,
                   threads>>

NextThreads ==
    \/ start_all
    \/ ThreadsTimer
    \/ ThreadsMainCycle
    \/ ThreadSeesStop
    \/ ThreadRaises
    \/ stop_all_set
    \/ stop_all_join

SpecThreads == InitApp /\ [][NextThreads]_vars

\* C32: stop_all sets the stop event before it waits, the stop event stays
\* set, and when stop_all has returned no registered thread is running any
\* more.
C32_StopAllLeavesNoThread ==
    /\ stop_pc # "idle" => stop_event
    /\ stop_pc = "returned" => \A t \in ThreadNames : threads[t] # "running"

\* stop_all has returned with the web server thread still running
C32_WebThreadWitness ==
    /\ stop_pc = "returned"
    /\ stop_event
    /\ threads["timer"] = "finished"
    /\ threads["syncing"] = "finished"
    /\ threads["web"] = "running"

\* C33: a step in which a thread's target raises ends that thread only: the
\* stop event, the other threads and the main loop are as before.
C33_ExceptionEndsOneThread ==
    [][\A t \in ThreadNames :
          (threads[t] = "running" /\ threads'[t] = "failed")
             => /\ stop_event' = stop_event
                /\ app_main_pc' = app_main_pc
                /\ \A u \in ThreadNames \ {t} : threads'[u] = threads[u]]_vars

\* the syncing thread has ended on an exception, the timer thread and the
\* main loop have gone on ticking
C33_Witness ==
    /\ threads["syncing"] = "failed"
    /\ threads["timer"] = "running"
    /\ threads["web"] = "running"
    /\ ~stop_event
    /\ app_main_pc = "wait"
    /\ signals = MaxAppSignals
    /\ ticks = MaxAppCycles

\* C34: once the shutdown handler has released the outputs, the handler is
\* not entered again, the release is not performed again and no tick is
\* made: the process only ends.
C34_StoppedIsTerminal ==
    [][gpio_released
         => /\ handler_pc' \in {handler_pc, "done"}
            /\ ticks' = ticks
            /\ posVars' = posVars]_vars

\* the handler, called a second time by run's except clause, has performed
\* GPIO.cleanup again
C34_SecondReleaseWitness ==
    /\ gpio_released
    /\ hardware_available
    /\ handler_pc = "exit_again"
    /\ main_pc = "exited"

(***************************************************************************)
(* SpecMonotone: one decision of synchronize_clock for an offset of any    *)
(* sign from a sample of magnitudes around the second, minute and hour     *)
(* carries, under the constructor's thresholds and others the              *)
(* pulsing-config API can store.                                           *)
(***************************************************************************)
MonotoneMagnitudes == {0, 1, 30, 31, 59, 60, 61, 90, 91, 3599, 3600, 3601, 3630, 3631,
                       21599, 21600}

MonotoneThresholdHours == {0, 1, 6}

MonotoneThresholdMinutes == {0, 1, 59}

MonotoneThresholdSeconds == {0, 30, 59}

InitMonotone ==
    /\ diff_threshold_hh \in MonotoneThresholdHours
    /\ diff_threshold_mm \in MonotoneThresholdMinutes
    /\ diff_threshold_ss \in MonotoneThresholdSeconds
    /\ clock_hour = 12 /\ clock_minute = 0 /\ clock_second = 0
    /\ hardware_available = TRUE
    /\ rtc = <<0, 0, 0>>
    /\ fram = <<>>
    /\ rt_hist = <<>>
    /\ ConstructedMode /\ IdleThreads /\ IdleCycle /\ ZeroCounts /\ UnusedClock /\ IdleServices

DecideClockBehind == \E m \in MonotoneMagnitudes : DecideOnOffset(m)

DecideClockAhead == \E m \in MonotoneMagnitudes \ {0} : DecideOnOffset(-m)

NextMonotone == DecideClockBehind \/ DecideClockAhead

SpecMonotone == InitMonotone /\ [][NextMonotone]_vars

\* C35: when synchronize_clock has held (normal forward tick) at an offset,
\* should_use_fast_forward_or_reverse is False for every offset of smaller
\* magnitude under the same thresholds.
C35_DecisionMonotone ==
    last_tick = "forward_tick" =>
        \A m \in 0..Abs(total_seconds_diff) :
            ~should_use_fast_forward_or_reverse(m, diff_threshold_hh, diff_threshold_mm,
                                                diff_threshold_ss)

\* under the constructor's thresholds an offset of exactly one hour has been
\* held and the hands moved one second forward, while 31 seconds is beyond
\* the same thresholds
C35_HourHeldWitness ==
    /\ thresholdVars = <<6, 0, 30>>
    /\ total_seconds_diff = 3600
    /\ last_tick = "forward_tick"
    /\ ~fast_forward
    /\ posVars = <<12, 0, 1>>
    /\ should_use_fast_forward_or_reverse(31, 6, 0, 30)

\* the offset of the hands as they stand now from the RTC
OffsetNow ==
    calculate_time_difference(clock_hour, clock_minute, clock_second, rtc[1], rtc[2], rtc[3])

\* C36: with the RTC fixed, a forward or fast-forward position update made at
\* an offset d > 0 leaves the offset d - 1, and a reverse position update is
\* made at an offset d < 0 and leaves d + 1; a fast-forward update is made
\* only at d > 0.
C36_TickMovesOffsetTowardZero ==
    /\ (last_tick \in {"forward_tick", "fast_forward_tick"} /\ total_seconds_diff > 0)
           => OffsetNow = total_seconds_diff - 1
    /\ last_tick = "fast_forward_tick" => total_seconds_diff > 0
    /\ last_tick = "reverse_tick"
           => total_seconds_diff < 0 /\ OffsetNow = total_seconds_diff + 1

\* the hands at 12:00:01 with the RTC at 11:59:59 were two seconds ahead
\* across the 12-hour wrap; the reverse update left them at 12:00:00, one
\* second ahead
C36_ReverseAcrossWrapWitness ==
    /\ rtc = <<11, 59, 59>>
    /\ seen_pos = <<12, 0, 1>>
    /\ total_seconds_diff = -2
    /\ last_tick = "reverse_tick"
    /\ posVars = <<12, 0, 0>>
    /\ OffsetNow = -1

\* the hands at 11:59:58 with the RTC at 12:00:00 were two seconds behind
\* across the AM/PM boundary; the fast-forward update left them one second
\* behind
C36_ForwardAcrossNoonWitness ==
    /\ rtc = <<12, 0, 0>>
    /\ seen_pos = <<11, 59, 58>>
    /\ total_seconds_diff = 2
    /\ last_tick = "fast_forward_tick"
    /\ posVars = <<11, 59, 59>>
    /\ OffsetNow = 1

(***************************************************************************)
(* SpecDue: the loops of SpecShutdown with the main thread scheduled       *)
(* fairly as well: a wait of the main loop that can return does return,    *)
(* and a main loop that can take the lock takes it.                        *)
(***************************************************************************)
SpecDue ==
    /\ InitShutdown
    /\ [][NextShutdown]_vars
    /\ WF_vars(TimerWake)
    /\ WF_vars(TimerSignal)
    /\ WF_vars(SyncRequest)
    /\ WF_vars(SyncSleep)
    /\ WF_vars(HandlerCleanup)
    /\ WF_vars(HandlerExit)
    /\ WF_vars(MainWaitSignalled)
    /\ WF_vars(MainWaitTimeout)
    /\ WF_vars(MainBeginCycle)
    /\ WF_vars(MainPulse)
    /\ WF_vars(MainUpdate)
    /\ WF_vars(MainPersist)

\* C37: once the tick-due flag is set with the clock not paused and no
\* shutdown requested, the main loop calls synchronize_clock unless the clock
\* is paused or shutdown is requested first; and the flag is cleared only by
\* the main loop as it takes the lock, in a critical section that either
\* runs the cycle or finds the clock paused.
C37_TickDueNeverLost ==
    /\ (tick_event /\ ~paused /\ ~shutdown_event)
           ~> (main_pc = "sync" \/ paused \/ shutdown_event)
    /\ [][(tick_event /\ ~tick_event')
            => /\ lock = "free"
               /\ main_pc = "woke"
               /\ \/ ~paused /\ main_pc' = "sync" /\ lock' = "main"
                  \/ paused /\ main_pc' = "wait" /\ lock' = "free"]_vars

\* the first signal of the cadence loop has been consumed by the critical
\* section that is now running the first cycle
C37_Witness ==
    /\ signals = 1
    /\ ~tick_event
    /\ main_pc = "sync"
    /\ lock = "main"
    /\ ~paused /\ ~shutdown_event
    /\ ticks = 0 /\ last_tick = "none"
    /\ timer_pc = "sleep"

(***************************************************************************)
(* SpecLocks: ClockController's two locks by holder.  The main loop takes  *)
(* and releases lock and clock_position_lock where run, synchronize_clock, *)
(* calculate_time_difference, reverse_tick, update_clock_position and      *)
(* write_time_to_fram do; the cadence loop takes lock; web requests        *)
(* (set-time, position and offset queries) take                            *)
(* clock_position_lock; pause and resume take none.  The signal handler    *)
(* runs on the main thread wherever it is, and its SystemExit leaves every *)
(* with block of the main thread.  The state is the one run has reached    *)
(* when its threads are started.  Threads are scheduled fairly and a       *)
(* thread that waits for a lock released again and again gets it.          *)
(***************************************************************************)
MaxLockCycles == 1

\* the variables no step of SpecLocks changes
lkRest == <<thresholdVars, time_string, signals, elapsed, subsec, rt_hist, clkVars,
            pulse_result, sync_pc, ntp_time, syncs, pulse_log, appVars, cadenceVars,
            mgrVars, web_log>>

\* the position a set-time request stores, and the requests that take
\* clock_position_lock: the ones that store a position and the ones that
\* read it
LockSetTime == <<12, 0, 0>>

WebSetRequests == {"set_clock_time"}

WebReadRequests == {"get_clock_time", "get_time_difference"}

InitLocks ==
    /\ \E start \in {<<None, None, None>>, <<12, 1, 0>>} :
          clock_hour = start[1] /\ clock_minute = start[2] /\ clock_second = start[3]
    /\ hardware_available \in BOOLEAN
    /\ rtc = <<0, 0, 2>>
    /\ fram = <<>>
    /\ lock = "free"
    /\ tick_event = FALSE
    /\ shutdown_event = FALSE
    /\ main_pc = "wait"
    /\ timer_pc = "sleep"
    /\ rt_hist = <<>>
    /\ ConstructedMode /\ DefaultThresholds /\ IdleCycle /\ ZeroCounts
    /\ UnusedClock /\ IdleServices

\* the process lives until the main thread has ended
LkRunning == main_pc # "crashed" /\ handler_pc # "done"

\* run: tick_event.wait(timeout=1) returns (piclock.py 784)
LkMainWait ==
    /\ main_pc = "wait"
    /\ handler_pc = "none"
    /\ ticks < MaxLockCycles \/ shutdown_event
    /\ main_pc' = "woke"
    /\ UNCHANGED <<posVars, modeVars, hwVars, lock, tick_event, shutdown_event,
                   timer_pc, seen_pos, total_seconds_diff, last_tick, ticks,
                   handler_pc, gpio_released, clock_position_lock, current_second,
                   lkRest>>

\* run: the shutdown test and "with self.lock" entered (piclock.py 785-787)
LkMainTakeLock ==
    /\ main_pc = "woke"
    /\ handler_pc = "none"
    /\ IF shutdown_event
       THEN main_pc' = "exited" /\ UNCHANGED lock
       ELSE lock = "free" /\ lock' = "main" /\ main_pc' = "locked"
    /\ UNCHANGED <<posVars, modeVars, hwVars, tick_event, shutdown_event,
                   timer_pc, seen_pos, total_seconds_diff, last_tick, ticks,
                   handler_pc, gpio_released, clock_position_lock, current_second,
                   lkRest>>

\* run: tick_event.clear() and the paused test (piclock.py 788-790)
LkMainClear ==
    /\ main_pc = "locked"
    /\ handler_pc = "none"
    /\ tick_event' = FALSE
    /\ main_pc' = IF paused THEN "unlock" ELSE "rtc"
    /\ UNCHANGED <<posVars, modeVars, hwVars, lock, shutdown_event,
                   timer_pc, seen_pos, total_seconds_diff, last_tick, ticks,
                   handler_pc, gpio_released, clock_position_lock, current_second,
                   lkRest>>

\* synchronize_clock: get_rtc_time, and the return when it gives None
\* (piclock.py 355-357, 130-139)
LkMainGetRtc ==
    /\ main_pc = "rtc"
    /\ handler_pc = "none"
    /\ \E read_ok \in BOOLEAN :
          main_pc' = IF hardware_available /\ read_ok THEN "calc_lock" ELSE "persist"
    /\ UNCHANGED <<posVars, modeVars, hwVars, lock, tick_event, shutdown_event,
                   timer_pc, seen_pos, total_seconds_diff, last_tick, ticks,
                   handler_pc, gpio_released, clock_position_lock, current_second,
                   lkRest>>

\* the main thread enters a "with self.clock_position_lock" block
\* (piclock.py 295, 262, 336, 146)
LkMainTakePositionLock ==
    /\ main_pc \in {"calc_lock", "second_lock", "update_lock", "persist_lock"}
    /\ handler_pc = "none"
    /\ clock_position_lock = "free"
    /\ clock_position_lock' = "main"
    /\ main_pc' = CASE main_pc = "calc_lock" -> "calc_read"
                    [] main_pc = "second_lock" -> "second_read"
                    [] main_pc = "update_lock" -> "update"
                    [] main_pc = "persist_lock" -> "format"
    /\ UNCHANGED <<posVars, modeVars, hwVars, lock, tick_event, shutdown_event,
                   timer_pc, seen_pos, total_seconds_diff, last_tick, ticks,
                   handler_pc, gpio_released, current_second, lkRest>>

\* the read of the position that keeps clock_position_lock for the rest of
\* the cycle
LkCalcRead_keeping_lock ==
    /\ main_pc = "calc_read"
    /\ handler_pc = "none"
    /\ seen_pos' = posVars
    /\ main_pc' = "decide"
    /\ UNCHANGED <<posVars, modeVars, hwVars, lock, tick_event, shutdown_event,
                   timer_pc, total_seconds_diff, last_tick, ticks, handler_pc,
                   gpio_released, clock_position_lock, current_second, lkRest>>

\* calculate_time_difference: the position copied and the lock released
\* (piclock.py 295-298)
LkCalcRead ==
    /\ main_pc = "calc_read"
    /\ handler_pc = "none"
    /\ seen_pos' = posVars
    /\ clock_position_lock' = "free"
    /\ main_pc' = "decide"
    /\ UNCHANGED <<posVars, modeVars, hwVars, lock, tick_event, shutdown_event,
                   timer_pc, total_seconds_diff, last_tick, ticks, handler_pc,
                   gpio_released, current_second, lkRest>>

\* the rest of calculate_time_difference, which raises on a position of
\* None and so leaves run and its "with self.lock", and the branch of
\* synchronize_clock with the entry of the tick (piclock.py 300-316,
\* 366-380, 233-234, 246-247, 259-260)
LkDecide ==
    /\ main_pc = "decide"
    /\ handler_pc = "none"
    /\ IF calculate_time_difference_raises(seen_pos[1], seen_pos[2], seen_pos[3])
       THEN /\ main_pc' = "crashed"
            /\ lock' = "free"
            /\ UNCHANGED <<total_seconds_diff, last_tick, fast_forward, reverse,
                           current_speed>>
       ELSE LET diff == calculate_time_difference(seen_pos[1], seen_pos[2], seen_pos[3],
                                                  rtc[1], rtc[2], rtc[3])
                tick == synchronize_clock_tick(diff, diff_threshold_hh,
                                               diff_threshold_mm, diff_threshold_ss)
            IN  /\ total_seconds_diff' = diff
                /\ last_tick' = tick
                /\ fast_forward' = (tick = "fast_forward_tick")
                /\ reverse' = (tick = "reverse_tick")
                /\ current_speed' = tick_speed(tick)
                /\ main_pc' = IF tick = "reverse_tick" THEN "second_lock" ELSE "pulse"
                /\ UNCHANGED lock
    /\ UNCHANGED <<posVars, current_tick_pin, paused, hwVars, tick_event,
                   shutdown_event, timer_pc, seen_pos, ticks, handler_pc,
                   gpio_released, clock_position_lock, current_second, lkRest>>

\* reverse_tick: current_second read and the lock released (piclock.py 263)
LkSecondRead ==
    /\ main_pc = "second_read"
    /\ handler_pc = "none"
    /\ current_second' = clock_second
    /\ clock_position_lock' = "free"
    /\ main_pc' = "pulse"
    /\ UNCHANGED <<posVars, modeVars, hwVars, lock, tick_event, shutdown_event,
                   timer_pc, seen_pos, total_seconds_diff, last_tick, ticks,
                   handler_pc, gpio_released, lkRest>>

\* the pulses of the tick and the output switch (piclock.py 237-241,
\* 250-254, 280-290)
LkPulse ==
    /\ main_pc = "pulse"
    /\ handler_pc = "none"
    /\ current_tick_pin' = IF last_tick = "reverse_tick"
                           THEN toggle_reverse(current_tick_pin)
                           ELSE toggle_forward(current_tick_pin)
    /\ main_pc' = "update_lock"
    /\ UNCHANGED <<posVars, fast_forward, paused, reverse, current_speed, hwVars,
                   lock, tick_event, shutdown_event, timer_pc, seen_pos,
                   total_seconds_diff, last_tick, ticks, handler_pc, gpio_released,
                   clock_position_lock, current_second, lkRest>>

\* update_clock_position: the position moved and the lock released
\* (piclock.py 337-352)
LkUpdate ==
    /\ main_pc = "update"
    /\ handler_pc = "none"
    /\ LET new == update_clock_position(clock_hour, clock_minute, clock_second,
                                        last_tick = "reverse_tick")
       IN  /\ clock_hour' = new[1]
           /\ clock_minute' = new[2]
           /\ clock_second' = new[3]
    /\ clock_position_lock' = "free"
    /\ ticks' = ticks + 1
    /\ main_pc' = "persist"
    /\ UNCHANGED <<modeVars, hwVars, lock, tick_event, shutdown_event, timer_pc,
                   seen_pos, total_seconds_diff, last_tick, handler_pc,
                   gpio_released, current_second, lkRest>>

\* write_time_to_fram: the return without hardware (piclock.py 142-144)
LkPersist ==
    /\ main_pc = "persist"
    /\ handler_pc = "none"
    /\ main_pc' = IF hardware_available THEN "persist_lock" ELSE "unlock"
    /\ UNCHANGED <<posVars, modeVars, hwVars, lock, tick_event, shutdown_event,
                   timer_pc, seen_pos, total_seconds_diff, last_tick, ticks,
                   handler_pc, gpio_released, clock_position_lock, current_second,
                   lkRest>>

\* write_time_to_fram: the record formatted under the lock, the lock
\* released (also by the TypeError of a position of None, which is logged),
\* the record written (piclock.py 145-151)
LkFormat ==
    /\ main_pc = "format"
    /\ handler_pc = "none"
    /\ clock_position_lock' = "free"
    /\ IF ~format_time_string_raises(clock_hour, clock_minute, clock_second)
       THEN fram' = format_time_string(clock_hour, clock_minute, clock_second)
       ELSE UNCHANGED fram
    /\ main_pc' = "unlock"
    /\ UNCHANGED <<posVars, modeVars, hardware_available, rtc, lock, tick_event,
                   shutdown_event, timer_pc, seen_pos, total_seconds_diff, last_tick,
                   ticks, handler_pc, gpio_released, current_second, lkRest>>

\* run: the end of the "with self.lock" block (piclock.py 787-792)
LkMainUnlock ==
    /\ main_pc = "unlock"
    /\ handler_pc = "none"
    /\ lock' = "free"
    /\ main_pc' = "wait"
    /\ UNCHANGED <<posVars, modeVars, hwVars, tick_event, shutdown_event,
                   timer_pc, seen_pos, total_seconds_diff, last_tick, ticks,
                   handler_pc, gpio_released, clock_position_lock, current_second,
                   lkRest>>

\* the steps of the main thread that wait for nothing
LkMainStep ==
    \/ LkMainWait
    \/ LkMainClear
    \/ LkMainGetRtc
    \/ LkCalcRead
    \/ LkDecide
    \/ LkSecondRead
    \/ LkPulse
    \/ LkUpdate
    \/ LkPersist
    \/ LkFormat
    \/ LkMainUnlock

\* timer_callback: the sleep is over (piclock.py 383, 409-411)
LkTimerWake ==
    /\ LkRunning
    /\ timer_pc = "sleep"
    /\ timer_pc' = IF shutdown_event THEN "exited" ELSE "take_lock"
    /\ UNCHANGED <<posVars, modeVars, hwVars, lock, tick_event, shutdown_event,
                   main_pc, seen_pos, total_seconds_diff, last_tick, ticks,
                   handler_pc, gpio_released, clock_position_lock, current_second,
                   lkRest>>

\* timer_callback: "with self.lock" entered (piclock.py 412)
LkTimerTakeLock ==
    /\ LkRunning
    /\ timer_pc = "take_lock"
    /\ lock = "free"
    /\ lock' = "timer"
    /\ timer_pc' = "locked"
    /\ UNCHANGED <<posVars, modeVars, hwVars, tick_event, shutdown_event,
                   main_pc, seen_pos, total_seconds_diff, last_tick, ticks,
                   handler_pc, gpio_released, clock_position_lock, current_second,
                   lkRest>>

\* timer_callback: the flag set unless paused, the lock released
\* (piclock.py 413-414)
LkTimerSignal ==
    /\ LkRunning
    /\ timer_pc = "locked"
    /\ tick_event' = (tick_event \/ ~paused)
    /\ lock' = "free"
    /\ timer_pc' = "sleep"
    /\ UNCHANGED <<posVars, modeVars, hwVars, shutdown_event,
                   main_pc, seen_pos, total_seconds_diff, last_tick, ticks,
                   handler_pc, gpio_released, clock_position_lock, current_second,
                   lkRest>>

\* a web request enters its "with self.clock_position_lock" block
\* (piclock.py 556, 521, and 295 for get_time_difference)
LkWebTakePositionLock ==
    /\ LkRunning
    /\ clock_position_lock = "free"
    /\ \E request \in WebSetRequests \cup WebReadRequests :
          clock_position_lock' = request
    /\ UNCHANGED <<posVars, modeVars, hwVars, lock, tick_event, shutdown_event,
                   main_pc, timer_pc, seen_pos, total_seconds_diff, last_tick, ticks,
                   handler_pc, gpio_released, current_second, lkRest>>

\* the block of the web request: the position stored or read, the lock
\* released, and set_clock_time's set_rtc_time (piclock.py 556-562, 521-526,
\* 295-298)
LkWebRelease ==
    /\ LkRunning
    /\ clock_position_lock \in WebSetRequests \cup WebReadRequests
    /\ IF clock_position_lock \in WebSetRequests
       THEN /\ clock_hour' = LockSetTime[1]
            /\ clock_minute' = LockSetTime[2]
            /\ clock_second' = LockSetTime[3]
       ELSE UNCHANGED posVars
    /\ rtc' = IF clock_position_lock = "set_clock_time"
              THEN set_rtc_time(hardware_available, rtc, LockSetTime)
              ELSE rtc
    /\ clock_position_lock' = "free"
    /\ UNCHANGED <<modeVars, hardware_available, fram, lock, tick_event,
                   shutdown_event, main_pc, timer_pc, seen_pos, total_seconds_diff,
                   last_tick, ticks, handler_pc, gpio_released, current_second,
                   lkRest>>

\* _signal_handler: sys.exit(0) raises SystemExit on the main thread, which
\* leaves the with blocks it is in and is caught by run, which calls the
\* handler again; then the second sys.exit(0) ends the process
\* (piclock.py 427, 793-794)
LkHandlerExit ==
    /\ handler_pc \in {"exit", "exit_again"}
    /\ IF handler_pc = "exit"
       THEN /\ main_pc' = "exited"
            /\ lock' = IF lock = "main" THEN "free" ELSE lock
            /\ clock_position_lock' = IF clock_position_lock = "main" THEN "free"
                                      ELSE clock_position_lock
            /\ handler_pc' = "sleep_again"
       ELSE /\ handler_pc' = "done"
            /\ UNCHANGED <<main_pc, lock, clock_position_lock>>
    /\ UNCHANGED <<posVars, modeVars, hwVars, tick_event, shutdown_event, timer_pc,
                   seen_pos, total_seconds_diff, last_tick, ticks, gpio_released,
                   current_second, lkRest>>

NextLocks ==
    \/ LkMainStep
    \/ LkMainTakeLock
    \/ LkMainTakePositionLock
    \/ LkTimerWake
    \/ LkTimerTakeLock
    \/ LkTimerSignal
    \/ LkWebTakePositionLock
    \/ LkWebRelease
    \/ pause_clock
    \/ resume_clock
    \/ SignalReceived
    \/ HandlerCleanup
    \/ LkHandlerExit

SpecLocks ==
    /\ InitLocks
    /\ [][NextLocks]_vars
    /\ WF_vars(LkMainStep)
    /\ SF_vars(LkMainTakeLock \/ LkMainTakePositionLock)
    /\ WF_vars(LkTimerWake \/ LkTimerSignal)
    /\ SF_vars(LkTimerTakeLock)
    /\ WF_vars(LkWebRelease)
    /\ WF_vars(HandlerCleanup \/ LkHandlerExit)

\* no thread is about to take a lock it holds, and whoever holds
\* clock_position_lock is not waiting for lock
LockOrderKept ==
    /\ main_pc = "woke" => (lock # "main" /\ clock_position_lock # "main")
    /\ main_pc \in {"calc_lock", "second_lock", "update_lock", "persist_lock"}
           => (clock_position_lock # "main" /\ lock = "main")
    /\ timer_pc = "take_lock" => lock # "timer"
    /\ clock_position_lock = "main" => lock = "main"
    /\ clock_position_lock \notin {"free", "main"} => lock \in {"free", "main", "timer"}

\* C38: the main loop takes clock_position_lock only inside lock, no other
\* thread takes both, no thread waits for a lock it holds, every lock held
\* is released (or the process ends), and a thread that waits for a lock
\* gets it.
C38_NoDeadlock ==
    /\ []LockOrderKept
    /\ (lock # "free") ~> (lock = "free" \/ ~LkRunning)
    /\ (clock_position_lock # "free") ~> (clock_position_lock = "free" \/ ~LkRunning)
    /\ (main_pc \in {"woke", "calc_lock", "second_lock", "update_lock", "persist_lock"})
           ~> (main_pc \in {"locked", "calc_read", "second_read", "update", "format",
                            "exited"})
    /\ (timer_pc = "take_lock") ~> (timer_pc = "locked" \/ ~LkRunning)

\* the main loop is inside lock and waits for clock_position_lock, which a
\* set-time request holds, while the cadence loop waits for lock
C38_ContentionWitness ==
    /\ lock = "main"
    /\ main_pc = "update_lock"
    /\ clock_position_lock = "set_clock_time"
    /\ timer_pc = "take_lock"
    /\ handler_pc = "none"
    /\ last_tick = "reverse_tick"

(***************************************************************************)
(* SpecSetTime: set-time requests of the three routes (POST                *)
(* /api/set_clock_time with a JSON body, the set_time forms of / and       *)
(* /config) with fields in and out of range, numbers with a fraction,      *)
(* strings and missing fields, interleaved with forward and reverse        *)
(* position updates, from a valid position.                                *)
(***************************************************************************)
MaxSetTimeRequests == 1

MaxSetTimeTicks == 2

\* a field of a request: a JSON integer, a JSON number with a fraction (in
\* tenths), a string, or absent
JsonInt(n) == [kind |-> "int", num |-> n, text |-> <<>>]

JsonFloat(tenths) == [kind |-> "float", num |-> tenths, text |-> <<>>]

JsonStr(chars) == [kind |-> "str", num |-> 0, text |-> chars]

JsonNull == [kind |-> "null", num |-> 0, text |-> <<>>]

\* Python's int() of a field of the body: an int as it is, a float
\* truncated toward zero, a string parsed; None stands for ValueError and
\* TypeError (piclock.py 542-544, 439-441, 476-478)
python_int_value(v) ==
    IF v.kind = "int" THEN v.num
    ELSE IF v.kind = "float"
         THEN (IF v.num >= 0 THEN v.num \div 10 ELSE -((-v.num) \div 10))
    ELSE IF v.kind = "str" THEN python_int_str(v.text)
    ELSE None

\* the values all three routes go on with, <<>> when the request is refused:
\* a missing field, a field int() does not accept, a value out of range
\* (piclock.py 537-553, 438-444, 475-480)
set_time_values(fields) ==
    LET hour == python_int_value(fields[1])
        minute == python_int_value(fields[2])
        second == python_int_value(fields[3])
    IN  IF \E i \in 1..3 : fields[i].kind = "null" THEN <<>>
        ELSE IF hour = None \/ minute = None \/ second = None THEN <<>>
        ELSE IF ~(1 <= hour /\ hour <= 12) THEN <<>>
        ELSE IF ~(0 <= minute /\ minute <= 59) THEN <<>>
        ELSE IF ~(0 <= second /\ second <= 59) THEN <<>>
        ELSE <<hour, minute, second>>

ApiHours ==
    {JsonInt(0), JsonInt(7), JsonInt(13), JsonFloat(75), JsonStr(<<"7">>),
     JsonStr(<<"7", ".", "5">>), JsonNull}

ApiMinutes ==
    {JsonInt(-1), JsonInt(30), JsonInt(60), JsonFloat(305), JsonFloat(-5), JsonStr(<<"x">>)}

ApiSeconds == {JsonInt(0), JsonInt(60), JsonFloat(599)}

FormHours ==
    {JsonStr(<<"7">>), JsonStr(<<"1", "3">>), JsonStr(<<"7", ".", "5">>),
     JsonStr(<<" ", "7">>), JsonNull}

FormMinutes == {JsonStr(<<"3", "0">>), JsonStr(<<"6", "0">>), JsonStr(<<"-", "1">>)}

FormSeconds == {JsonStr(<<"0">>), JsonStr(<<"x">>)}

InitSetTime ==
    /\ \E start \in {<<12, 0, 0>>, <<11, 59, 59>>} :
          clock_hour = start[1] /\ clock_minute = start[2] /\ clock_second = start[3]
    /\ hardware_available = TRUE
    /\ rtc = <<3, 0, 45>>
    /\ fram = <<>>
    /\ rt_hist = <<>>
    /\ ConstructedMode /\ DefaultThresholds /\ IdleThreads /\ IdleCycle /\ ZeroCounts
    /\ UnusedClock /\ IdleServices

\* the request served: the position stored and, where the route does it,
\* the RTC set, or the request refused; the response logged
ServeSetTime(route, fields, ok_status, sets_rtc) ==
    LET values == set_time_values(fields)
    IN  /\ Len(web_log) < MaxSetTimeRequests
        /\ IF values # <<>>
           THEN /\ clock_hour' = values[1]
                /\ clock_minute' = values[2]
                /\ clock_second' = values[3]
                /\ rtc' = IF sets_rtc THEN set_rtc_time(hardware_available, rtc, values)
                          ELSE rtc
           ELSE UNCHANGED <<posVars, rtc>>
        /\ web_log' = Append(web_log,
                             [route |-> route, fields |-> fields,
                              status |-> IF values # <<>> THEN ok_status ELSE 400])
        /\ UNCHANGED <<modeVars, thresholdVars, hardware_available, fram, threadVars,
                       cycleVars, countVars, rt_hist, clkVars, pulse_result, sync_pc,
                       ntp_time, syncs, handler_pc, gpio_released, tickVars, appVars,
                       cadenceVars, mgrVars>>

\* POST /api/set_clock_time (piclock.py 528-566)
ApiSetClockTime ==
    \E fields \in ApiHours \X ApiMinutes \X ApiSeconds :
        ServeSetTime("set_clock_time", fields, 200, TRUE)

\* POST / with set_time (piclock.py 436-454)
IndexSetTime ==
    \E fields \in FormHours \X FormMinutes \X FormSeconds :
        ServeSetTime("index", fields, 302, TRUE)

\* POST /config with set_time (piclock.py 473-488)
ConfigSetTime ==
    \E fields \in FormHours \X FormMinutes \X FormSeconds :
        ServeSetTime("config", fields, 302, FALSE)

\* a tick's update_clock_position, forward or reverse (piclock.py 335-352)
SetTimeTick ==
    /\ ticks < MaxSetTimeTicks
    /\ \E rev \in BOOLEAN :
          LET new == update_clock_position(clock_hour, clock_minute, clock_second, rev)
          IN  /\ clock_hour' = new[1]
              /\ clock_minute' = new[2]
              /\ clock_second' = new[3]
    /\ ticks' = ticks + 1
    /\ UNCHANGED <<modeVars, thresholdVars, hwVars, threadVars, cycleVars, signals,
                   elapsed, subsec, rt_hist, clkVars, ioVars>>

NextSetTime == ApiSetClockTime \/ IndexSetTime \/ ConfigSetTime \/ SetTimeTick

SpecSetTime == InitSetTime /\ [][NextSetTime]_vars

\* a field that is an integer: a JSON integer, or a string that spells one
DenotesInteger(v) ==
    v.kind = "int" \/ (v.kind = "str" /\ python_int_str(v.text) # None)

\* hour, minute and second are all integers and all in range
FieldsInRange(fields) ==
    /\ \A i \in 1..3 : DenotesInteger(fields[i])
    /\ python_int_value(fields[1]) \in Hours12
    /\ python_int_value(fields[2]) \in Sixty
    /\ python_int_value(fields[3]) \in Sixty

\* C39: a set-time request with a field out of range or not an integer is
\* answered with an error and leaves the hand position and the RTC as they
\* were; and the hand position is valid in every state.
C39_InvalidSetTimeRejected ==
    /\ []ValidPosition(clock_hour, clock_minute, clock_second)
    /\ [][Len(web_log') > Len(web_log)
            => LET served == web_log'[Len(web_log')]
               IN  ~FieldsInRange(served.fields)
                       => /\ served.status >= 400
                          /\ posVars' = posVars
                          /\ rtc' = rtc]_vars

\* the body {"hour": 7.5, "minute": 30.5, "second": 0} has been answered
\* with 200 and the hands and the RTC set to 7:30:00
C39_FractionAcceptedWitness ==
    /\ Len(web_log) = 1
    /\ web_log[1].route = "set_clock_time"
    /\ web_log[1].fields = <<JsonFloat(75), JsonFloat(305), JsonInt(0)>>
    /\ web_log[1].status = 200
    /\ posVars = <<7, 30, 0>>
    /\ rtc = <<7, 30, 0>>

====
